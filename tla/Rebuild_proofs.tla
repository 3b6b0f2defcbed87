--------------------------- MODULE Rebuild_proofs ---------------------------
(***************************************************************************)
(* The safety of hosts, sealing programs and rebuilds together, for any    *)
(* number of invocations, days, files and failures.                        *)
(***************************************************************************)
EXTENDS RebuildProps, VisitDb_proofs, SequenceTheorems

(***************************************************************************)
(* The statements on values.                                               *)
(***************************************************************************)
LEMMA MsgTyped ==
    ASSUME NEW i \in Invs
    PROVE  /\ Msg[i] \in Message
           /\ Msg[i].kind \in ActionKinds /\ Msg[i].url \in Urls /\ Msg[i].ts \in Stamps
           /\ DayOf[i] \in Dates
BY MsgAssumption, DayOfAssumption DEF Message, Files

LEMMA HostTagType ==
    ASSUME NEW x \in Db, NEW u \in Urls, NEW ts \in Stamps, NEW k
    PROVE  HostTag(x, u, ts, k) \in Db
<1>1. CASE k = "of_interest"
  BY <1>1, SetOfInterestType DEF HostTag, Tags
<1>2. CASE k \in Tags
  BY <1>2, TagWithFilenameType DEF HostTag, HostInsertEvent, Tags
<1>3. CASE k # "of_interest" /\ k \notin Tags
  BY <1>3 DEF HostTag
<1> QED
  BY <1>1, <1>2, <1>3

(* What a tag adds to the event rows of a database in which its url has a  *)
(* row: its own event and nothing else.                                    *)
LEMMA HostTagEvents ==
    ASSUME NEW x \in Db, NEW u \in Urls, NEW ts \in Stamps, NEW k, HasRow(x, u)
    PROVE  HostTag(x, u, ts, k).events =
              IF k \in Tags THEN x.events \cup {[tag |-> k, url |-> u, ts |-> ts]}
              ELSE x.events
<1>1. CASE k \in Tags
  <2> DEFINE e == [tag |-> k, url |-> u, ts |-> ts]
             y == [x EXCEPT !.events = @ \cup {e}]
  <2>1. HostTag(x, u, ts, k) = IF e \in x.events THEN x ELSE BumpCounter(y, k, u)
    BY <1>1 DEF HostTag, HostInsertEvent, TagWithFilename, Tags
  <2>2. BumpCounter(y, k, u).events = y.events
    BY DEF BumpCounter, Db
  <2>3. y.events = x.events \cup {e}
    BY DEF Db
  <2> QED
    BY <1>1, <2>1, <2>2, <2>3
<1>2. CASE k \notin Tags
  BY <1>2 DEF HostTag, SetOfInterest, Tags, Db
<1> QED
  BY <1>1, <1>2

LEMMA InsertVisitEvents ==
    ASSUME NEW x \in Db, NEW u \in Urls, NEW ts \in Stamps
    PROVE  InsertVisit(x, u, ts).events = x.events
BY DEF InsertVisit, Db

(* The events of invocation i.                                             *)
EvSet(i) == IF Msg[i].kind \in Tags THEN {Ev(i)} ELSE {}

LEMMA ApplyActionEffect ==
    ASSUME NEW x \in Db, NEW i \in Invs
    PROVE  /\ ApplyAction(x, i) \in Db
           /\ ApplyAction(x, i).events = x.events \cup EvSet(i)
<1> DEFINE b == InsertVisit(x, Msg[i].url, Msg[i].ts)
<1>1. b \in Db /\ HasRow(b, Msg[i].url) /\ b.events = x.events
  BY MsgTyped, InsertVisitType, InsertVisitEvents
<1>2. HostTag(b, Msg[i].url, Msg[i].ts, Msg[i].kind).events = b.events \cup EvSet(i)
  <2> DEFINE k == Msg[i].kind  u == Msg[i].url  t == Msg[i].ts
  <2>1. u \in Urls /\ t \in Stamps
    BY MsgTyped
  <2> HIDE DEF b, k, u, t
  <2>2. HostTag(b, u, t, k).events = IF k \in Tags
                                     THEN b.events \cup {[tag |-> k, url |-> u, ts |-> t]}
                                     ELSE b.events
    BY <1>1, <2>1, HostTagEvents DEF u
  <2> QED
    BY <2>2 DEF EvSet, Ev, k, u, t
<1>3. HostTag(b, Msg[i].url, Msg[i].ts, Msg[i].kind) \in Db
  BY <1>1, HostTagType, MsgTyped
<1>4. ApplyAction(x, i) = HostTag(b, Msg[i].url, Msg[i].ts, Msg[i].kind)
  BY DEF ApplyAction
<1> QED
  BY <1>1, <1>2, <1>3, <1>4

LEMMA HostWriteEffect ==
    ASSUME NEW x \in Db, NEW i \in Invs
    PROVE  /\ HostWrite(x, Msg[i]) \in Db
           /\ HostWrite(x, Msg[i]).events = x.events \cup EvSet(i)
<1> DEFINE y == ApplyAction(x, i)
<1>1. y \in Db /\ y.events = x.events \cup EvSet(i)
  BY ApplyActionEffect
<1>2. HostWrite(x, Msg[i]) = IF Msg[i].also /\ Msg[i].kind \in Tags
                             THEN SetOfInterest(y, Msg[i].url) ELSE y
  <2>1. HostTag(y, Msg[i].url, Msg[i].ts, "of_interest") = SetOfInterest(y, Msg[i].url)
    BY DEF HostTag, Tags
  <2> QED
    BY <2>1 DEF HostWrite, ApplyAction
<1>3. SetOfInterest(y, Msg[i].url).events = y.events
  BY <1>1 DEF SetOfInterest, Db
<1> QED
  BY <1>1, <1>2, <1>3, HostWriteType, MsgTyped

LEMMA ApplyActionCounted ==
    ASSUME NEW x, Counted(x), NEW i \in Invs
    PROVE  Counted(ApplyAction(x, i))
BY InsertVisitCounted, HostTagCounted, MsgTyped DEF ApplyAction

LEMMA HostWriteCounted ==
    ASSUME NEW x, Counted(x), NEW i \in Invs
    PROVE  Counted(HostWrite(x, Msg[i]))
BY HostWriteKeepsCounters, MsgTyped

(***************************************************************************)
(* The error rows and the sealer's state stay what they are.               *)
(***************************************************************************)
LEMMA ErrorsTyped ==
    ASSUME NEW e \in [ErrorKeys -> ErrorRow]
    PROVE  /\ \A k : \A b \in BOOLEAN : RecordError(e, k, b) \in [ErrorKeys -> ErrorRow]
           /\ \A k : ClearError(e, k) \in [ErrorKeys -> ErrorRow]
           /\ \A op, S : RecordStrays(e, op, S) \in [ErrorKeys -> ErrorRow]
           /\ \A op, S, T : ReconcileDirScoped(e, op, S, T) \in [ErrorKeys -> ErrorRow]
<1>1. NoRow \in ErrorRow
  BY ThresholdAssumption DEF NoRow, ErrorRow
<1>2. ASSUME NEW k, NEW b \in BOOLEAN
      PROVE  RecordError(e, k, b) \in [ErrorKeys -> ErrorRow]
  <2> DEFINE r == [attempts  |-> IF e[k].attempts < Threshold
                                 THEN e[k].attempts + 1 ELSE Threshold,
                   immediate |-> e[k].immediate \/ b,
                   notified  |-> e[k].notified]
  <2>1. ASSUME k \in ErrorKeys PROVE r \in ErrorRow
    <3>1. e[k] \in ErrorRow
      BY <2>1
    <3>2. (IF e[k].attempts < Threshold THEN e[k].attempts + 1 ELSE Threshold) \in 0..Threshold
      BY <3>1, ThresholdAssumption DEF ErrorRow
    <3>3. (e[k].immediate \/ b) \in BOOLEAN
      OBVIOUS
    <3> QED
      BY <3>1, <3>2, <3>3 DEF ErrorRow
  <2>2. RecordError(e, k, b) = [e EXCEPT ![k] = r]
    BY DEF RecordError
  <2> HIDE DEF r
  <2> QED
    BY <2>1, <2>2
<1>3. ASSUME NEW k PROVE ClearError(e, k) \in [ErrorKeys -> ErrorRow]
  BY <1>1 DEF ClearError
<1>4. ASSUME NEW op, NEW S PROVE RecordStrays(e, op, S) \in [ErrorKeys -> ErrorRow]
  <2>1. IsImmediate(op, FALSE) \in BOOLEAN
    BY DEF IsImmediate
  <2>2. \A k \in ErrorKeys : RecordError(e, k, IsImmediate(op, FALSE))[k] \in ErrorRow
    BY <1>2, <2>1
  <2> QED
    BY <2>2 DEF RecordStrays
<1>5. ASSUME NEW op, NEW S, NEW T
      PROVE  ReconcileDirScoped(e, op, S, T) \in [ErrorKeys -> ErrorRow]
  BY <1>1 DEF ReconcileDirScoped
<1> QED
  BY <1>2, <1>3, <1>4, <1>5

LEMMA SealerTyped ==
    ASSUME sealer \in Sealer, NEW d
    PROVE  /\ IdleSealer \in Sealer
           /\ AfterDay(d) \in Sealer
           /\ AfterMerge(d) \in Sealer
<1>1. IdleSealer \in Sealer
  BY DEF IdleSealer, Sealer
<1>2. AfterDay(d) \in Sealer
  <2>1. [sealer EXCEPT !.pc = "list", !.dates = sealer.dates \ {d}, !.lists = {}] \in Sealer
    BY DEF Sealer
  <2>2. [IdleSealer EXCEPT !.pc = "merge",
                           !.dates = {e \in Dates : e < today /\ log[e] # <<>>}] \in Sealer
    BY DEF Sealer, IdleSealer
  <2> QED
    BY <1>1, <2>1, <2>2 DEF AfterDay
<1>3. AfterMerge(d) \in Sealer
  BY <1>1 DEF AfterMerge, Sealer
<1> QED
  BY <1>1, <1>2, <1>3

RebStates == [pc : RebPcs, log : BOOLEAN, rehydrate : BOOLEAN,
              files : SUBSET (Dates \X Sources), lines : Seq(Lines),
              pending : SUBSET Invs, skipped : BOOLEAN,
              quiet : BOOLEAN, moved : BOOLEAN]

LEMMA InitType == Init => TypeOK
<1> SUFFICES ASSUME Init PROVE TypeOK
  OBVIOUS
<1> USE DEF Init, SealInit
<1>1. today \in Dates
  BY LastDateAssumption DEF Dates
<1>2. /\ log \in [Dates -> Seq(Lines)] /\ sealedLog \in [Dates -> Seq(Lines)]
      /\ dir \in [Dates -> SUBSET Files]
      /\ manifest \in [Dates -> Manifest]
      /\ row \in [Dates -> {"none", "open", "sealed"}]
  BY DEF NoManifest, Manifest, Files
<1>3. errs \in [ErrorKeys -> ErrorRow]
  BY ThresholdAssumption DEF NoRow, ErrorRow
<1>4. sealer \in Sealer
  BY DEF Sealer, IdleSealer
<1>5. SealTypeOK
  BY <1>1, <1>2, <1>3, <1>4, EmptyDbType DEF SealTypeOK
<1>6. reb \in RebStates
  BY DEF IdleReb, RebStates, RebPcs
<1> QED
  BY <1>5, <1>6 DEF TypeOK, RebStates, HostPcs

LEMMA DisturbType == ASSUME TypeOK, Disturb PROVE reb' \in RebStates
BY DEF TypeOK, Disturb, RebStates

LEMMA WithRowType ==
    ASSUME SealTypeOK, NEW d
    PROVE  WithRow(d) \in [Dates -> {"none", "open", "sealed"}]
BY DEF SealTypeOK, WithRow

LEMMA AppendLineType ==
    ASSUME TypeOK, NEW i \in Invs, NEW h \in {"action", "success", "error"}, AppendLine(i, h)
    PROVE  /\ log' \in [Dates -> Seq(Lines)]
           /\ written' \in SUBSET Lines
           /\ reb' \in RebStates
<1> DEFINE l == [id |-> i, half |-> h]
<1>1. l \in Lines
  BY DEF Lines
<1>2. DayOf[i] \in Dates
  BY MsgTyped
<1>3. Append(log[DayOf[i]], l) \in Seq(Lines)
  BY <1>1, <1>2 DEF TypeOK, SealTypeOK
<1>4. /\ log' = [log EXCEPT ![DayOf[i]] = Append(@, l)]
      /\ written' = written \cup {l}
  BY DEF AppendLine
<1> QED
  BY <1>1, <1>2, <1>3, <1>4, DisturbType DEF TypeOK, SealTypeOK, AppendLine

LEMMA HostMoves ==
    ASSUME TypeOK, NEW i, NEW pc \in HostPcs
    PROVE  [host EXCEPT ![i] = pc] \in [Invs -> HostPcs]
BY DEF TypeOK

LEMMA ArchiveType ==
    ASSUME TypeOK, NEW i \in Invs, HostArchives(i)
    PROVE  TypeOK'
<1> USE DEF TypeOK, SealTypeOK
<1> DEFINE d == DayOf[i]
<1>1. reb' \in RebStates
  BY DisturbType DEF HostArchives, HostCopies, HostUpdates, HostLooks, HostInserts,
                     HostRemovesManifest, HostWritesManifest
<1>2. \A pc \in HostPcs : [host EXCEPT ![i] = pc] \in [Invs -> HostPcs]
  BY HostMoves
<1>3. CASE HostCopies(i)
  <2>1. dir' \in [Dates -> SUBSET Files]
    BY <1>3 DEF HostCopies, Files
  <2>2. host' \in [Invs -> HostPcs]
    BY <1>2, <1>3 DEF HostCopies, HostPcs, Archiving
  <2> QED
    BY <1>1, <1>3, <2>1, <2>2 DEF HostCopies, RebStates
<1>4. CASE HostUpdates(i)
  <2>1. place' \in [Invs -> {"none", "downloads", "archive"}]
    BY <1>4 DEF HostUpdates
  <2>2. host' \in [Invs -> HostPcs]
    BY <1>2, <1>4 DEF HostUpdates, HostPcs, Archiving
  <2> QED
    BY <1>1, <1>4, <2>1, <2>2 DEF HostUpdates, RebStates
<1>5. CASE HostLooks(i)
  <2>1. host' \in [Invs -> HostPcs]
    BY <1>2, <1>5 DEF HostLooks, HostPcs, Archiving
  <2> QED
    BY <1>1, <1>5, <2>1 DEF HostLooks, archiveVars, historyVars, RebStates
<1>6. CASE HostInserts(i)
  <2>1. row' \in [Dates -> {"none", "open", "sealed"}]
    BY <1>6, WithRowType DEF HostInserts
  <2>2. host' \in [Invs -> HostPcs]
    BY <1>6 DEF HostInserts, HostPcs, Archiving
  <2> QED
    BY <1>1, <1>6, <2>1, <2>2 DEF HostInserts, historyVars, RebStates
<1>7. CASE HostRemovesManifest(i)
  <2>1. manifest' \in [Dates -> Manifest]
    BY <1>7 DEF HostRemovesManifest, NoManifest, Manifest
  <2>2. host' \in [Invs -> HostPcs]
    BY <1>2, <1>7 DEF HostRemovesManifest, HostPcs, Archiving
  <2>3. deleted' \in SUBSET Dates
    BY <1>7, MsgTyped DEF HostRemovesManifest
  <2> QED
    BY <1>1, <1>7, <2>1, <2>2, <2>3 DEF HostRemovesManifest, RebStates
<1>8. CASE HostWritesManifest(i)
  <2>1. manifest' \in [Dates -> Manifest]
    BY <1>8 DEF HostWritesManifest, Manifest
  <2>2. host' \in [Invs -> HostPcs]
    BY <1>2, <1>8 DEF HostWritesManifest, HostPcs
  <2>3. deleted' \in SUBSET Dates
    BY <1>8 DEF HostWritesManifest
  <2> QED
    BY <1>1, <1>8, <2>1, <2>2, <2>3 DEF HostWritesManifest, RebStates
<1> QED
  BY <1>3, <1>4, <1>5, <1>6, <1>7, <1>8 DEF HostArchives

LEMMA HostType ==
    ASSUME TypeOK, NEW i \in Invs, HostSteps(i)
    PROVE  TypeOK'
<1> USE DEF TypeOK, SealTypeOK
<1>0. \A pc \in HostPcs : [host EXCEPT ![i] = pc] \in [Invs -> HostPcs]
  BY HostMoves
<1>1. CASE HostLogs(i)
  <2>1. AppendLine(i, "action")
    BY <1>1 DEF HostLogs
  <2>2. host' \in [Invs -> HostPcs]
    BY <1>0, <1>1 DEF HostLogs, HostPcs
  <2> QED
    BY <1>1, <2>1, <2>2, AppendLineType DEF HostLogs, RebStates
<1>2. CASE HostStores(i)
  <2>1. db' \in Db
    BY <1>2, HostWriteEffect DEF HostStores
  <2>2. reb' \in RebStates
    BY <1>2, DisturbType DEF HostStores
  <2>3. row' \in [Dates -> {"none", "open", "sealed"}]
    BY <1>2, WithRowType DEF HostStores
  <2>4. host' \in [Invs -> HostPcs]
    BY <1>0, <1>2 DEF HostStores, HostPcs
  <2> QED
    BY <1>2, <2>1, <2>2, <2>3, <2>4 DEF HostStores, RebStates
<1>3. CASE HostArchives(i)
  BY <1>3, ArchiveType
<1>4. CASE HostResult(i)
  <2>1. PICK h \in {"success", "error"} : AppendLine(i, h)
    BY <1>4 DEF HostResult
  <2>2. host' \in [Invs -> HostPcs]
    BY <1>0, <1>4 DEF HostResult, HostPcs
  <2> QED
    BY <1>4, <2>1, <2>2, AppendLineType DEF HostResult, RebStates
<1> QED
  BY <1>1, <1>2, <1>3, <1>4 DEF HostSteps

LEMMA RebuildType ==
    ASSUME TypeOK, RebuildSteps
    PROVE  TypeOK'
<1> USE DEF TypeOK, SealTypeOK
<1>1. reb \in RebStates
  BY DEF RebStates
<1>2. ASSUME NEW r \in RebStates
      PROVE  EnterLogPhase(r) \in RebStates /\ EnterRehydrate(r) \in RebStates
  BY DEF EnterLogPhase, EnterRehydrate, RebStates, RebPcs
<1>3. IdleReb \in RebStates
  BY DEF IdleReb, RebStates, RebPcs
<1>4. ASSUME NEW o \in Options, RebuildBegins(o)
      PROVE  TypeOK'
  <2> DEFINE x == [IdleReb EXCEPT !.log = o.log, !.rehydrate = o.rehydrate,
                                  !.quiet = o.truncate]
  <2>1. x \in RebStates
    BY <1>3, OptionsAssumption DEF RebStates
  <2>2. reb' = IF o.truncate THEN [x EXCEPT !.pc = "drop"] ELSE EnterLogPhase(x)
    BY <1>4 DEF RebuildBegins
  <2>3. [x EXCEPT !.pc = "drop"] \in RebStates
    BY <2>1 DEF RebStates, RebPcs, Dropping
  <2>4. reb' \in RebStates
    BY <1>2, <2>1, <2>2, <2>3
  <2> QED
    BY <1>4, <2>4 DEF RebuildBegins, archiveVars, historyVars, RebStates
<1>5. CASE TruncateRebuildableTables
  <2>1. CASE DropVisits
    <3>1. db' \in Db
      BY <2>1, EmptyDbType DEF DropVisits, EmptyDb, Db
    <3>2. reb' \in RebStates
      BY <1>1, <2>1 DEF DropVisits, RebStates, RebPcs, Dropping
    <3>3. torn' \in BOOLEAN /\ lossy' \in BOOLEAN /\ stale' \in BOOLEAN
      BY <2>1 DEF DropVisits
    <3> QED
      BY <2>1, <3>1, <3>2, <3>3 DEF DropVisits, RebStates
  <2>2. ASSUME NEW t \in Tags, DropEvents(t) PROVE TypeOK'
    <3>1. db' \in Db
      BY <2>2 DEF DropEvents, Db
    <3>2. reb' \in RebStates
      BY <1>1, <2>2 DEF DropEvents, RebStates, RebPcs, Dropping
    <3>3. place' \in [Invs -> {"none", "downloads", "archive"}]
      BY <2>2 DEF DropEvents
    <3>4. torn' \in BOOLEAN
      BY <2>2 DEF DropEvents
    <3> QED
      BY <2>2, <3>1, <3>2, <3>3, <3>4 DEF DropEvents, RebStates
  <2>3. CASE DropSnapshots
    <3>1. reb' \in RebStates
      BY <1>1, <1>2, <2>3 DEF DropSnapshots
    <3> QED
      BY <2>3, <3>1 DEF DropSnapshots, historyVars, RebStates
  <2> QED
    BY <1>5, <2>1, <2>2, <2>3 DEF TruncateRebuildableTables
<1>6. CASE ListArchive \/ ListLogDir
  <2>1. reb' \in RebStates
    <3>1. \A D \in SUBSET Dates : /\ D \X {"icloud"} \in SUBSET (Dates \X Sources)
                                  /\ D \X {"log_dir"} \in SUBSET (Dates \X Sources)
      BY DEF Sources
    <3>2. \E pc \in RebPcs, F \in SUBSET (Dates \X Sources) :
             reb' = [reb EXCEPT !.pc = pc, !.files = F]
      <4>1. CASE ListArchive
        BY <3>1, <4>1 DEF ListArchive, RebPcs
      <4>2. CASE ListLogDir
        <5>1. reb.files \cup ({d \in Dates : log[d] # <<>>} \X {"log_dir"})
                 \in SUBSET (Dates \X Sources)
          BY <1>1, <3>1 DEF RebStates
        <5> QED
          BY <4>2, <5>1 DEF ListLogDir, RebPcs
      <4> QED
        BY <1>6, <4>1, <4>2
    <3> QED
      BY <1>1, <3>2 DEF RebStates
  <2> QED
    BY <1>6, <2>1 DEF ListArchive, ListLogDir, archiveVars, historyVars, RebStates
<1>7. ASSUME NEW f \in Dates \X Sources, OpenFile(f)
      PROVE  TypeOK'
  <2>1. f[1] \in Dates
    OBVIOUS
  <2>2. Content(f) \in Seq(Lines)
    BY <2>1 DEF Content
  <2>3. \/ reb' = IdleReb /\ row' = row /\ stale' = stale
        \/ /\ reb' = [reb EXCEPT !.files = reb.files \ {f}, !.lines = Content(f)]
           /\ row' = WithRow(f[1]) /\ stale' = TRUE
    <3>1. CASE Content(f) = <<>>
      BY <1>7, <3>1 DEF OpenFile
    <3>2. CASE Content(f) # <<>>
      BY <1>7, <3>2 DEF OpenFile
    <3> QED
      BY <3>1, <3>2
  <2>4. [reb EXCEPT !.files = reb.files \ {f}, !.lines = Content(f)] \in RebStates
    BY <1>1, <2>2 DEF RebStates
  <2>5. reb' \in RebStates
    BY <1>3, <2>3, <2>4
  <2>6. row' \in [Dates -> {"none", "open", "sealed"}] /\ stale' \in BOOLEAN
    <3>1. WithRow(f[1]) \in [Dates -> {"none", "open", "sealed"}]
      BY WithRowType
    <3> QED
      BY <2>3, <3>1
  <2> QED
    BY <1>7, <2>5, <2>6 DEF OpenFile, RebStates
<1>8. CASE ReplayOneLine
  <2> DEFINE l == Head(reb.lines)
  <2>1. l \in Lines /\ Tail(reb.lines) \in Seq(Lines)
    BY <1>8 DEF ReplayOneLine
  <2>2. l.id \in Invs
    BY <2>1 DEF Lines
  <2>3. db' \in Db
    BY <1>8, <2>2, ApplyActionEffect DEF ReplayOneLine
  <2>4. place' \in [Invs -> {"none", "downloads", "archive"}]
    BY <1>8, <2>2 DEF ReplayOneLine
  <2>5. reb' \in RebStates
    <3>1. Skips(l) \in BOOLEAN
      BY DEF Skips
    <3>2. (IF l.half = "action" THEN reb.pending \cup {l.id} ELSE reb.pending \ {l.id})
              \in SUBSET Invs
      BY <2>2
    <3>3. reb' = [reb EXCEPT !.lines = Tail(reb.lines),
                     !.pending = IF l.half = "action" THEN reb.pending \cup {l.id}
                                 ELSE reb.pending \ {l.id},
                     !.skipped = reb.skipped \/ Skips(l)]
      BY <1>8 DEF ReplayOneLine
    <3> HIDE DEF l
    <3> QED
      BY <1>1, <2>1, <3>1, <3>2, <3>3 DEF RebStates
  <2> QED
    BY <1>8, <2>3, <2>4, <2>5 DEF ReplayOneLine, historyVars, RebStates
<1>9. CASE EndReplay
  <2>1. [reb EXCEPT !.skipped = reb.skipped \/ reb.pending # {}, !.pending = {}] \in RebStates
    BY <1>1 DEF RebStates
  <2>2. reb' \in RebStates
    BY <1>2, <1>9, <2>1 DEF EndReplay
  <2> QED
    BY <1>9, <2>2 DEF EndReplay, archiveVars, historyVars, RebStates
<1>10. CASE RehydrateFilesystem
  <2>1. row' \in [Dates -> {"none", "open", "sealed"}]
    BY <1>10 DEF RehydrateFilesystem
  <2>2. place' \in [Invs -> {"none", "downloads", "archive"}]
    BY <1>10 DEF RehydrateFilesystem
  <2>3. reb' \in RebStates
    BY <1>1, <1>10 DEF RehydrateFilesystem, RebStates, RebPcs
  <2> QED
    BY <1>10, <2>1, <2>2, <2>3 DEF RehydrateFilesystem, RebStates
<1>11. CASE RebuildEnds
  <2>1. lossy' \in BOOLEAN
    BY <1>11 DEF RebuildEnds
  <2> QED
    BY <1>3, <1>11, <2>1 DEF RebuildEnds, archiveVars, RebStates
<1> QED
  BY <1>4, <1>5, <1>6, <1>7, <1>8, <1>9, <1>10, <1>11 DEF RebuildSteps

LEMMA SealerStepType ==
    ASSUME SealTypeOK, NEW d \in Dates,
           \/ SnapshotSealer(d) \/ SealCompletedDays \/ NothingToMerge
           \/ BuildManifestRows(d) \/ WriteManifest(d) \/ FlipSealed(d)
           \/ ClearSealError(d) \/ MovesLog(d)
    PROVE  SealTypeOK'
<1> USE DEF SealTypeOK
<1>1. NoManifest \in Manifest
  BY DEF NoManifest, Manifest
<1>2. CASE SnapshotSealer(d)
  BY <1>2 DEF SnapshotSealer, archiveVars, IdleSealer, Sealer
<1>3. CASE SealCompletedDays
  BY <1>3 DEF SealCompletedDays, archiveVars, IdleSealer, Sealer
<1>4. CASE NothingToMerge
  BY <1>4, SealerTyped DEF NothingToMerge, archiveVars
<1>5. CASE BuildManifestRows(d)
  <2>1. manifest' \in [Dates -> Manifest]
    BY <1>1, <1>5 DEF BuildManifestRows
  <2>2. sealer' \in Sealer
    BY <1>5 DEF BuildManifestRows, Sealer
  <2>3. errs' \in [ErrorKeys -> ErrorRow]
    BY <1>5, ErrorsTyped DEF BuildManifestRows
  <2> QED
    BY <1>5, <2>1, <2>2, <2>3 DEF BuildManifestRows
<1>6. CASE WriteManifest(d)
  <2>1. [mode |-> "full", lists |-> sealer.lists] \in Manifest
    BY DEF Sealer, Manifest
  <2>2. manifest' \in [Dates -> Manifest]
    BY <1>6, <2>1 DEF WriteManifest
  <2>3. sealer' \in Sealer
    BY <1>6 DEF WriteManifest, Goto, Sealer
  <2> QED
    BY <1>6, <2>2, <2>3 DEF WriteManifest
<1>7. CASE FlipSealed(d)
  <2>1. sealer' \in Sealer
    BY <1>7 DEF FlipSealed, Goto, Sealer
  <2> QED
    BY <1>7, <2>1 DEF FlipSealed
<1>8. CASE ClearSealError(d)
  BY <1>8, SealerTyped, ErrorsTyped DEF ClearSealError
<1>9. CASE MovesLog(d)
  <2>1. CASE MoveLogIntoSealedDir(d)
    <3>1. sealer' \in Sealer
      BY <2>1 DEF MoveLogIntoSealedDir, Goto, Sealer
    <3>2. log' \in [Dates -> Seq(Lines)] /\ sealedLog' \in [Dates -> Seq(Lines)]
      <4>1. CASE log[d] = <<>>
        BY <2>1, <4>1 DEF MoveLogIntoSealedDir
      <4>2. CASE log[d] # <<>>
        <5>1. <<>> \in Seq(Lines) /\ log[d] \in Seq(Lines)
          OBVIOUS
        <5>2. /\ sealedLog' = [sealedLog EXCEPT ![d] = log[d]]
              /\ log' = [log EXCEPT ![d] = <<>>]
          BY <2>1, <4>2 DEF MoveLogIntoSealedDir
        <5> QED
          BY <5>1, <5>2
      <4> QED
        BY <4>1, <4>2
    <3> QED
      BY <2>1, <3>1, <3>2 DEF MoveLogIntoSealedDir
  <2>2. CASE MergeOrphanLog(d)
    <3>1. sealer' \in Sealer
      <4>1. [sealer EXCEPT !.pc = "unlink"] \in Sealer
        BY DEF Sealer
      <4> QED
        BY <2>2, <4>1, SealerTyped DEF MergeOrphanLog, Goto
    <3>2. sealedLog[d] \o log[d] \in Seq(Lines)
      OBVIOUS
    <3>3. sealedLog' \in [Dates -> Seq(Lines)]
      BY <2>2, <3>2 DEF MergeOrphanLog
    <3>4. row' \in [Dates -> {"none", "open", "sealed"}]
      BY <2>2, WithRowType DEF MergeOrphanLog
    <3> QED
      BY <2>2, <3>1, <3>3, <3>4 DEF MergeOrphanLog
  <2>3. CASE UnlinkOrphanLog(d)
    <3>1. log' \in [Dates -> Seq(Lines)]
      <4>1. <<>> \in Seq(Lines)
        OBVIOUS
      <4>2. log' = [log EXCEPT ![d] = <<>>]
        BY <2>3 DEF UnlinkOrphanLog
      <4> QED
        BY <4>1, <4>2
    <3>2. sealer' \in Sealer /\ errs' \in [ErrorKeys -> ErrorRow]
      BY <2>3, SealerTyped, ErrorsTyped DEF UnlinkOrphanLog
    <3> QED
      BY <2>3, <3>1, <3>2 DEF UnlinkOrphanLog
  <2> QED
    BY <1>9, <2>1, <2>2, <2>3 DEF MovesLog
<1> QED
  BY <1>2, <1>3, <1>4, <1>5, <1>6, <1>7, <1>8, <1>9

LEMMA HalfWrittenType ==
    ASSUME SealTypeOK, NEW d, HalfWritten(d)
    PROVE  manifest' \in [Dates -> Manifest]
<1>1. [mode |-> "partial", lists |-> {}] \in Manifest
  BY DEF Manifest
<1> QED
  BY <1>1 DEF HalfWritten, SealTypeOK

LEMMA SealerFaultType ==
    ASSUME SealTypeOK, SealerFault
    PROVE  SealTypeOK'
<1> USE DEF SealTypeOK
<1>1. CASE SealerKilled
  <2>1. manifest' \in [Dates -> Manifest]
    BY <1>1, HalfWrittenType DEF SealerKilled
  <2> QED
    BY <1>1, <2>1, SealerTyped DEF SealerKilled
<1>2. \A b \in BOOLEAN : IsImmediate("seal", b) \in BOOLEAN
  BY DEF IsImmediate
<1>3. ASSUME NEW d \in Dates, SealThrows(d) PROVE SealTypeOK'
  <2>1. manifest' \in [Dates -> Manifest]
    BY <1>3, HalfWrittenType DEF SealThrows
  <2>2. errs' \in [ErrorKeys -> ErrorRow]
    <3>1. PICK b \in BOOLEAN :
             errs' = RecordError(errs, <<"seal", d>>, IsImmediate("seal", b))
      BY <1>3 DEF SealThrows
    <3>2. IsImmediate("seal", b) \in BOOLEAN
      BY <1>2
    <3> QED
      BY <3>1, <3>2, ErrorsTyped
  <2> QED
    BY <1>3, <2>1, <2>2, SealerTyped DEF SealThrows
<1>4. ASSUME NEW d \in Dates, MergeThrows(d) PROVE SealTypeOK'
  <2>2. errs' \in [ErrorKeys -> ErrorRow]
    <3>1. PICK b \in BOOLEAN :
             errs' = RecordError(errs, <<"seal", d>>, IsImmediate("seal", b))
      BY <1>4 DEF MergeThrows
    <3>2. IsImmediate("seal", b) \in BOOLEAN
      BY <1>2
    <3> QED
      BY <3>1, <3>2, ErrorsTyped
  <2> QED
    BY <1>4, <2>2, SealerTyped DEF MergeThrows
<1> QED
  BY <1>1, <1>3, <1>4 DEF SealerFault

(* What steps leave alone.                                                 *)
SameTables ==
    /\ db' = db /\ place' = place
    /\ lossy' = lossy /\ stale' = stale /\ torn' = torn
SameHosts == host' = host /\ written' = written /\ stored' = stored
SameLogs == log' = log /\ sealedLog' = sealedLog
SameArchive == SameLogs /\ dir' = dir /\ manifest' = manifest /\ deleted' = deleted

LEMMA ManifestGoneType == ManifestGone => deleted' \in SUBSET Dates
BY DEF ManifestGone

(* What the programs of SealersRun do: a step of PySeal, and what the      *)
(* history makes of it.                                                    *)
SealersGhosts ==
    /\ SameHosts /\ lossy' = lossy /\ stale' = stale /\ torn' = torn
    /\ copied' = copied /\ faults' = faults

LEMMA SealersStep ==
    ASSUME SealersRun
    PROVE  /\ SealersGhosts
           /\ \/ /\ SealCompletedDays \/ \E d \in Dates : SnapshotSealer(d)
                 /\ resealed' = resealed \cup {d \in sealer'.dates : sealedLog[d] # <<>>
                                                                   /\ Unsettled(d)}
                 /\ deleted' = deleted /\ reb' = reb
              \/ /\ \/ NothingToMerge
                    \/ \E d \in Dates : \/ BuildManifestRows(d) \/ WriteManifest(d)
                                         \/ FlipSealed(d) \/ ClearSealError(d)
                 /\ ManifestGone /\ resealed' = resealed /\ reb' = reb
              \/ \E d \in Dates : SealerMovesLog(d)
BY DEF SealersRun, SealerStarts, SealerWorks, SealerMovesLog, SealerSteps, SealersGhosts,
       SameHosts

LEMMA SealersRunType ==
    ASSUME TypeOK, SealersRun
    PROVE  TypeOK'
<1> USE DEF TypeOK
<1>0. 1 \in Dates
  BY LastDateAssumption DEF Dates
<1>1. SealTypeOK'
  BY <1>0, SealersStep, SealerStepType DEF SealerMovesLog
<1>2. deleted' \in SUBSET Dates
  BY SealersStep, ManifestGoneType DEF SealerMovesLog
<1>3. resealed' \in SUBSET Dates
  <2>1. sealer'.dates \in SUBSET Dates
    BY <1>1 DEF SealTypeOK, Sealer
  <2> QED
    BY <2>1, SealersStep DEF SealerMovesLog
<1>4. reb' \in RebStates
  <2>1. reb \in RebStates
    BY DEF RebStates
  <2>2. ASSUME NEW d \in Dates, SealerMovesLog(d) PROVE reb' \in RebStates
    BY <2>1, <2>2 DEF SealerMovesLog, Outruns, RebStates
  <2> QED
    BY <2>1, <2>2, SealersStep
<1> QED
  BY <1>1, <1>2, <1>3, <1>4, SealersStep DEF SealersGhosts, SameHosts, RebStates

LEMMA NextType == TypeOK /\ [Next]_vars => TypeOK'
<1> SUFFICES ASSUME TypeOK, [Next]_vars PROVE TypeOK'
  OBVIOUS
<1> USE DEF TypeOK
<1>1. CASE \E i \in Invs : HostSteps(i)
  BY <1>1, HostType
<1>2. CASE \E d \in Dates : DeleteManifest(d)
  <2>1. PICK d \in Dates : DeleteManifest(d)
    BY <1>2
  <2>2. manifest' \in [Dates -> Manifest]
    BY <2>1 DEF DeleteManifest, SealTypeOK, NoManifest, Manifest
  <2>3. deleted' \in SUBSET Dates
    BY <2>1 DEF DeleteManifest
  <2>4. SealTypeOK'
    BY <2>1, <2>2 DEF DeleteManifest, SealTypeOK
  <2> QED
    BY <2>1, <2>3, <2>4 DEF DeleteManifest
<1>3. CASE Midnight
  <2>1. today' \in Dates
    BY <1>3, LastDateAssumption DEF Midnight, SealTypeOK, Dates
  <2> QED
    BY <1>3, <2>1 DEF Midnight, SealTypeOK, archiveVars, historyVars
<1>4. CASE RebuildSteps
  BY <1>4, RebuildType
<1>5. CASE SealersRun
  BY <1>5, SealersRunType
<1>6. CASE Fault
  <2>1. faults' \in Nat
    BY <1>6 DEF Fault
  <2>2. ASSUME NEW i \in Invs, HostMishap(i)
        PROVE  TypeOK'
    <3>1. host' \in [Invs -> HostPcs]
      BY <2>2, HostMoves DEF HostMishap, HostLineFails, HostStoreFails, HostArchiveFails,
                             HostKilled, HostPcs
    <3> QED
      BY <2>1, <2>2, <3>1
      DEF HostMishap, HostLineFails, HostStoreFails, HostArchiveFails, HostKilled,
          archiveVars, historyVars, SealTypeOK
  <2>3. CASE RebuildKilled
    <3>1. IdleReb \in RebStates
      BY DEF IdleReb, RebStates, RebPcs
    <3> QED
      BY <2>1, <2>3, <3>1 DEF RebuildKilled, archiveVars, historyVars, SealTypeOK, RebStates
  <2>4. CASE SealersFail
    <3>1. SealTypeOK'
      BY <2>4, SealerFaultType DEF SealersFail
    <3>2. deleted' \in SUBSET Dates
      BY <2>4, ManifestGoneType DEF SealersFail
    <3> QED
      BY <2>1, <2>4, <3>1, <3>2 DEF SealersFail
  <2> QED
    BY <1>6, <2>2, <2>3, <2>4 DEF Fault
<1>7. CASE UNCHANGED vars
  BY <1>7 DEF vars, archiveVars, historyVars, SealTypeOK
<1> QED
  BY <1>1, <1>2, <1>3, <1>4, <1>5, <1>6, <1>7 DEF Next

(***************************************************************************)
(* Every reachable state of the hosts, the archive, the sealing programs   *)
(* and the rebuilder is well typed.                                        *)
(***************************************************************************)
THEOREM TypeCorrect == Spec => []TypeOK
BY InitType, NextType, PTL DEF Spec

(***************************************************************************)
(* The kinds of steps, and what each leaves alone.                         *)
(***************************************************************************)
HostFails(i) ==
    /\ HostMishap(i)
    /\ today' = today /\ SameTables /\ SameArchive /\ row' = row /\ sealer' = sealer
    /\ written' = written /\ stored' = stored /\ copied' = copied /\ resealed' = resealed
    /\ reb' = reb
ManifestGoes(d) ==
    /\ DeleteManifest(d)
    /\ today' = today /\ SameTables /\ SameHosts /\ SameLogs /\ dir' = dir /\ row' = row
    /\ sealer' = sealer /\ copied' = copied /\ resealed' = resealed /\ reb' = reb
DayEnds ==
    /\ Midnight
    /\ SameTables /\ SameHosts /\ SameArchive /\ row' = row /\ sealer' = sealer
    /\ copied' = copied /\ resealed' = resealed /\ reb' = reb
Rebuilds ==
    /\ RebuildSteps
    /\ today' = today /\ SameHosts /\ SameArchive /\ sealer' = sealer
    /\ resealed' = resealed
Seals ==
    /\ SealersRun
    /\ today' = today /\ SameTables /\ SameHosts /\ dir' = dir /\ copied' = copied
SealFails ==
    /\ SealersFail
    /\ today' = today /\ SameTables /\ SameHosts /\ SameLogs /\ dir' = dir /\ row' = row
    /\ copied' = copied /\ resealed' = resealed /\ reb' = reb
Idles ==
    /\ today' = today /\ SameTables /\ SameHosts /\ SameArchive /\ row' = row
    /\ sealer' = sealer /\ copied' = copied /\ resealed' = resealed
    /\ reb' = reb \/ reb' = IdleReb

LEMMA SealersFrame ==
    ASSUME SealersRun
    PROVE  today' = today /\ SameTables /\ SameHosts /\ dir' = dir /\ copied' = copied
<1> USE DEF SameTables, SameHosts
<1>1. SealersGhosts
  BY SealersStep
<1>2. ASSUME NEW d \in Dates, SnapshotSealer(d) \/ BuildManifestRows(d) \/ WriteManifest(d)
                              \/ FlipSealed(d) \/ ClearSealError(d)
      PROVE  today' = today /\ db' = db /\ place' = place /\ dir' = dir
  BY <1>2 DEF SnapshotSealer, BuildManifestRows, WriteManifest, FlipSealed, ClearSealError,
              archiveVars
<1>3. ASSUME SealCompletedDays \/ NothingToMerge
      PROVE  today' = today /\ db' = db /\ place' = place /\ dir' = dir
  BY <1>3 DEF SealCompletedDays, NothingToMerge, archiveVars
<1>4. ASSUME NEW d \in Dates, MovesLog(d)
      PROVE  today' = today /\ db' = db /\ place' = place /\ dir' = dir
  BY <1>4 DEF MovesLog, MoveLogIntoSealedDir, MergeOrphanLog, UnlinkOrphanLog
<1> QED
  BY <1>1, <1>2, <1>3, <1>4, SealersStep DEF SealersGhosts, SealerMovesLog

(* A sealer leaves to the rebuilder all but the marks of the history.      *)
LEMMA SealersReb ==
    ASSUME TypeOK, SealersRun
    PROVE  /\ \A x \in {"pc", "log", "rehydrate", "files", "lines", "pending", "skipped"} :
                 reb'[x] = reb[x]
           /\ reb.moved => reb'.moved
           /\ reb'.quiet => reb.quiet
<1>1. reb \in RebStates
  BY DEF TypeOK, RebStates
<1>2. ASSUME NEW d \in Dates, SealerMovesLog(d)
      PROVE  reb' = reb \/ reb' = [reb EXCEPT !.moved = @ \/ Outruns(d), !.quiet = FALSE]
  BY <1>2 DEF SealerMovesLog
<1> QED
  BY <1>1, <1>2, SealersStep DEF RebStates

LEMMA RebuildFrame ==
    ASSUME RebuildSteps
    PROVE  /\ today' = today /\ SameHosts /\ SameArchive /\ sealer' = sealer
           /\ resealed' = resealed
<1> DEFINE Frame == /\ today' = today /\ SameHosts /\ SameArchive /\ sealer' = sealer
                    /\ resealed' = resealed
<1> USE DEF SameHosts, SameLogs, SameArchive
<1>1. ASSUME NEW o, RebuildBegins(o) PROVE Frame
  BY <1>1 DEF RebuildBegins, archiveVars, historyVars
<1>2. ASSUME NEW f, OpenFile(f) PROVE Frame
  BY <1>2 DEF OpenFile
<1>3. ASSUME TruncateRebuildableTables PROVE Frame
  BY <1>3 DEF TruncateRebuildableTables, DropVisits, DropEvents, DropSnapshots, historyVars
<1>4. ASSUME ListArchive \/ ListLogDir \/ ReplayOneLine PROVE Frame
  BY <1>4 DEF ListArchive, ListLogDir, ReplayOneLine, archiveVars, historyVars
<1>5. ASSUME EndReplay \/ RehydrateFilesystem \/ RebuildEnds PROVE Frame
  BY <1>5 DEF EndReplay, RehydrateFilesystem, RebuildEnds, archiveVars, historyVars
<1> QED
  BY <1>1, <1>2, <1>3, <1>4, <1>5 DEF RebuildSteps

LEMMA KindsOfSteps ==
    ASSUME [Next]_vars
    PROVE  \/ \E i \in Invs : HostSteps(i) \/ HostFails(i)
           \/ \E d \in Dates : ManifestGoes(d)
           \/ DayEnds \/ Rebuilds \/ Seals \/ SealFails \/ Idles
<1> USE DEF SameTables, SameHosts, SameLogs, SameArchive
<1>1. ASSUME NEW d, DeleteManifest(d) PROVE ManifestGoes(d)
  BY <1>1 DEF DeleteManifest, ManifestGoes
<1>2. ASSUME Midnight PROVE DayEnds
  BY <1>2 DEF Midnight, DayEnds, archiveVars, historyVars
<1>3. ASSUME RebuildSteps PROVE Rebuilds
  BY <1>3, RebuildFrame DEF Rebuilds
<1>4. ASSUME SealersRun PROVE Seals
  BY <1>4, SealersFrame DEF Seals
<1>5. ASSUME NEW i, HostMishap(i) PROVE HostFails(i)
  BY <1>5 DEF HostMishap, HostLineFails, HostStoreFails, HostArchiveFails, HostKilled,
              HostFails, archiveVars, historyVars
<1>6. ASSUME RebuildKilled PROVE Idles
  BY <1>6 DEF RebuildKilled, Idles, archiveVars, historyVars
<1>7. ASSUME SealersFail PROVE SealFails
  BY <1>7 DEF SealersFail, SealFails, SealerFault, SealerKilled, SealThrows, MergeThrows
<1>8. ASSUME UNCHANGED vars PROVE Idles
  BY <1>8 DEF vars, Idles, archiveVars, historyVars
<1> QED
  BY <1>1, <1>2, <1>3, <1>4, <1>5, <1>6, <1>7, <1>8 DEF Next, Fault

(* Steps of a rebuild that touch the tables.                               *)
LEMMA TablesFrame ==
    ASSUME RebuildSteps
    PROVE  \/ DropVisits \/ (\E t \in Tags : DropEvents(t)) \/ ReplayOneLine
           \/ db' = db /\ torn' = torn
<1> USE DEF archiveVars, historyVars
<1>1. ASSUME NEW o, RebuildBegins(o) PROVE db' = db /\ torn' = torn
  BY <1>1 DEF RebuildBegins
<1>2. ASSUME NEW f, OpenFile(f) PROVE db' = db /\ torn' = torn
  BY <1>2 DEF OpenFile
<1>3. ASSUME DropSnapshots \/ ListArchive \/ ListLogDir \/ EndReplay PROVE db' = db /\ torn' = torn
  BY <1>3 DEF DropSnapshots, ListArchive, ListLogDir, EndReplay
<1>4. ASSUME RehydrateFilesystem \/ RebuildEnds PROVE db' = db /\ torn' = torn
  BY <1>4 DEF RehydrateFilesystem, RebuildEnds
<1> QED
  BY <1>1, <1>2, <1>3, <1>4 DEF RebuildSteps, TruncateRebuildableTables

LEMMA HostTables ==
    ASSUME NEW i \in Invs, HostSteps(i)
    PROVE  /\ lossy' = lossy /\ stale' = stale /\ torn' = torn /\ resealed' = resealed
           /\ HostStores(i) \/ (db' = db /\ stored' = stored)
BY DEF HostSteps, HostLogs, HostStores, HostResult, HostArchives, HostCopies, HostUpdates,
       HostLooks, HostInserts, HostRemovesManifest, HostWritesManifest, archiveVars,
       historyVars

(***************************************************************************)
(* The counters.                                                           *)
(***************************************************************************)
CountersInv == torn \/ Counted(db)

LEMMA NextCounters == TypeOK /\ CountersInv /\ [Next]_vars => CountersInv'
<1> SUFFICES ASSUME TypeOK, CountersInv, [Next]_vars PROVE torn' \/ Counted(db')
  BY DEF CountersInv
<1>1. ASSUME NEW i \in Invs, HostSteps(i) PROVE torn' \/ Counted(db')
  <2>1. torn' = torn
    BY <1>1, HostTables
  <2>2. Counted(db) => Counted(db')
    BY <1>1, HostTables, HostWriteCounted DEF HostStores
  <2> QED
    BY <2>1, <2>2 DEF CountersInv
<1>2. ASSUME DropVisits \/ \E t \in Tags : DropEvents(t) PROVE torn' \/ Counted(db')
  <2>1. torn' \/ db' = EmptyDb
    BY <1>2 DEF DropVisits, DropEvents
  <2> QED
    BY <2>1, EmptyDbCounted
<1>3. CASE ReplayOneLine
  <2> DEFINE l == Head(reb.lines)
  <2>1. l \in Lines
    BY <1>3 DEF ReplayOneLine, TypeOK
  <2>2. l.id \in Invs
    BY <2>1 DEF Lines
  <2>3. Counted(db) => Counted(db')
    BY <1>3, <2>2, ApplyActionCounted DEF ReplayOneLine
  <2> QED
    BY <1>3, <2>3 DEF ReplayOneLine, historyVars, CountersInv
<1>4. ASSUME db' = db, torn' = torn PROVE torn' \/ Counted(db')
  BY <1>4 DEF CountersInv
<1> QED
  BY <1>1, <1>2, <1>3, <1>4, KindsOfSteps, TablesFrame
  DEF HostFails, ManifestGoes, DayEnds, Rebuilds, Seals, SealFails, Idles, SameTables

(***************************************************************************)
(* The counters of visits agree with the event rows in every state that    *)
(* the DROPs of a rebuild have not torn: whatever is replayed twice, and   *)
(* beside whatever hosts write.                                            *)
(***************************************************************************)
THEOREM CountersCorrect == Spec => []CountersTrue
<1>1. Init => CountersInv
  BY EmptyDbCounted DEF Init, SealInit, CountersInv
<1>2. CountersInv => CountersTrue
  BY DEF CountersInv, Counted, CountersTrue
<1> QED
  BY <1>1, <1>2, InitType, NextType, NextCounters, PTL DEF Spec

(***************************************************************************)
(* What an invocation has written and stored, by how far it is.            *)
(***************************************************************************)
LineOf(i, h) == [id |-> i, half |-> h]

HostTrue(i) ==
    /\ host[i] \in {"new", "logged", "failed"} => i \notin stored
    /\ host[i] \in {"stored", "moved"} \cup Archiving => i \in stored
    /\ LineOf(i, "action") \in written => host[i] # "new"
    /\ \A h \in {"success", "error"} : LineOf(i, h) \in written => host[i] = "over"
    /\ LineOf(i, "success") \in written => i \in stored /\ LineOf(i, "error") \notin written
    /\ LineOf(i, "error") \in written => i \notin stored \/ LineOf(i, "action") \notin written

HostsInv == \A i \in Invs : HostTrue(i)

(* What the steps of an archiving host have in common.                     *)
LEMMA ArchiveMoves ==
    ASSUME NEW i \in Invs, HostArchives(i)
    PROVE  /\ \E pc \in {"moved"} \cup Archiving : host' = [host EXCEPT ![i] = pc]
           /\ host[i] \in {"stored"} \cup Archiving
           /\ written' = written /\ stored' = stored /\ db' = db /\ SameLogs
           /\ today' = today /\ sealer' = sealer /\ Disturb
<1> USE DEF Archiving, SameLogs, archiveVars, historyVars
<1>1. CASE HostCopies(i) \/ HostUpdates(i)
  BY <1>1 DEF HostCopies, HostUpdates
<1>2. CASE HostLooks(i) \/ HostInserts(i)
  BY <1>2 DEF HostLooks, HostInserts
<1>3. CASE HostRemovesManifest(i) \/ HostWritesManifest(i)
  BY <1>3 DEF HostRemovesManifest, HostWritesManifest
<1> QED
  BY <1>1, <1>2, <1>3 DEF HostArchives

LEMMA LinesDiffer ==
    \A i, j, g, h : LineOf(i, g) = LineOf(j, h) <=> i = j /\ g = h
BY DEF LineOf

LEMMA InitHosts == Init => HostsInv
BY DEF Init, HostsInv, HostTrue, Archiving

LEMMA NextHosts == TypeOK /\ HostsInv /\ [Next]_vars => HostsInv'
<1> SUFFICES ASSUME TypeOK, HostsInv, [Next]_vars PROVE HostsInv'
  OBVIOUS
<1>1. CASE SameHosts
  BY <1>1 DEF HostsInv, HostTrue, SameHosts
<1>2. ASSUME NEW i \in Invs, HostSteps(i) \/ HostFails(i)
      PROVE  HostsInv'
  <2> SUFFICES ASSUME NEW j \in Invs PROVE HostTrue(j)'
    BY DEF HostsInv
  <2>1. HostTrue(i) /\ HostTrue(j)
    BY DEF HostsInv
  <2>2. host \in [Invs -> HostPcs]
    BY DEF TypeOK
  <2> USE DEF Archiving
  <2>3. CASE HostLogs(i)
    <3>1. /\ host' = [host EXCEPT ![i] = "logged"] /\ host[i] = "new"
          /\ written' = written \cup {LineOf(i, "action")} /\ stored' = stored
      BY <2>3 DEF HostLogs, AppendLine, LineOf
    <3> QED
      BY <2>1, <2>2, <3>1, LinesDiffer DEF HostTrue
  <2>4. CASE HostStores(i)
    <3>1. /\ host' = [host EXCEPT ![i] = "stored"] /\ host[i] = "logged"
          /\ written' = written /\ stored' = stored \cup {i}
      BY <2>4 DEF HostStores
    <3> QED
      BY <2>1, <2>2, <3>1 DEF HostTrue
  <2>5. CASE HostArchives(i)
    <3>1. /\ \E pc \in {"moved"} \cup Archiving : host' = [host EXCEPT ![i] = pc]
          /\ host[i] \in {"stored"} \cup Archiving
          /\ written' = written /\ stored' = stored
      BY <2>5, ArchiveMoves
    <3> QED
      BY <2>1, <2>2, <3>1 DEF HostTrue
  <2>6. CASE HostResult(i)
    <3> DEFINE failed == host[i] = "failed" \/ LineOf(i, "action") \notin written
               h == IF failed THEN "error" ELSE "success"
    <3>1. /\ host' = [host EXCEPT ![i] = "over"] /\ host[i] \in {"failed", "moved", "stored"}
          /\ written' = written \cup {LineOf(i, h)} /\ stored' = stored
      BY <2>6 DEF HostResult, AppendLine, LineOf
    <3>2. \A g \in {"success", "error"} : LineOf(i, g) \notin written
      BY <2>1, <3>1 DEF HostTrue
    <3>3. CASE failed
      <4>1. i \notin stored \/ LineOf(i, "action") \notin written
        BY <2>1, <3>3 DEF HostTrue
      <4>2. written' = written \cup {LineOf(i, "error")}
        BY <3>1, <3>3
      <4> QED
        BY <2>1, <2>2, <3>1, <3>2, <4>1, <4>2, LinesDiffer DEF HostTrue
    <3>4. CASE ~failed
      <4>1. i \in stored
        BY <2>1, <3>1, <3>4 DEF HostTrue
      <4>2. written' = written \cup {LineOf(i, "success")}
        BY <3>1, <3>4
      <4> QED
        BY <2>1, <2>2, <3>1, <3>2, <4>1, <4>2, LinesDiffer DEF HostTrue
    <3> QED
      BY <3>3, <3>4
  <2>7. CASE HostFails(i)
    <3>1. /\ \/ host[i] = "new" /\ host' = [host EXCEPT ![i] = "logged"]
             \/ host[i] = "logged" /\ host' = [host EXCEPT ![i] = "failed"]
             \/ host[i] \in {"stored"} \cup Archiving /\ host' = [host EXCEPT ![i] = "moved"]
             \/ host[i] # "new" /\ host' = [host EXCEPT ![i] = "over"]
          /\ written' = written /\ stored' = stored
      BY <2>7 DEF HostFails, HostMishap, HostLineFails, HostStoreFails, HostArchiveFails,
                  HostKilled
    <3> QED
      BY <2>1, <2>2, <3>1 DEF HostTrue
  <2> QED
    BY <1>2, <2>3, <2>4, <2>5, <2>6, <2>7 DEF HostSteps
<1> QED
  BY <1>1, <1>2, KindsOfSteps DEF ManifestGoes, DayEnds, Rebuilds, Seals, SealFails, Idles

(***************************************************************************)
(* The lines of the files, and those the rebuilder holds, were written,    *)
(* and to the log of their own day.                                        *)
(***************************************************************************)
LogTrue(w, s, d) == \A k \in 1..Len(s) : s[k] \in w /\ DayOf[s[k].id] = d

LogsInv ==
    /\ \A d \in Dates : LogTrue(written, log[d], d) /\ LogTrue(written, sealedLog[d], d)
    /\ \A k \in 1..Len(reb.lines) : reb.lines[k] \in written

LEMMA InitLogs == Init => LogsInv
BY DEF Init, SealInit, LogsInv, LogTrue, IdleReb

(* What a step may do to the two logs of a day.                            *)
LogsMove(d) ==
    \/ log'[d] = log[d] /\ sealedLog'[d] = sealedLog[d]
    \/ log'[d] = <<>> /\ sealedLog'[d] = sealedLog[d]
    \/ log'[d] = <<>> /\ sealedLog'[d] = log[d]
    \/ log'[d] = log[d] /\ sealedLog'[d] = sealedLog[d] \o log[d]

LEMMA SealersMoveLogs ==
    ASSUME TypeOK, Seals, NEW d \in Dates
    PROVE  LogsMove(d)
<1> USE DEF TypeOK, SealTypeOK
<1>1. ASSUME NEW e \in Dates, SnapshotSealer(e) \/ BuildManifestRows(e) \/ WriteManifest(e)
                              \/ FlipSealed(e) \/ ClearSealError(e)
      PROVE  LogsMove(d)
  BY <1>1 DEF SnapshotSealer, BuildManifestRows, WriteManifest, FlipSealed, ClearSealError,
              archiveVars, LogsMove
<1>2. ASSUME SealCompletedDays \/ NothingToMerge
      PROVE  LogsMove(d)
  BY <1>2 DEF SealCompletedDays, NothingToMerge, archiveVars, LogsMove
<1>3. ASSUME NEW e \in Dates, MovesLog(e)
      PROVE  LogsMove(d)
  <2>1. CASE MoveLogIntoSealedDir(e)
    <3>1. CASE log[e] = <<>>
      BY <2>1, <3>1 DEF MoveLogIntoSealedDir, LogsMove
    <3>2. CASE log[e] # <<>>
      BY <2>1, <3>2 DEF MoveLogIntoSealedDir, LogsMove
    <3> QED
      BY <3>1, <3>2
  <2>2. CASE MergeOrphanLog(e)
    BY <2>2 DEF MergeOrphanLog, LogsMove
  <2>3. CASE UnlinkOrphanLog(e)
    BY <2>3 DEF UnlinkOrphanLog, LogsMove
  <2> QED
    BY <1>3, <2>1, <2>2, <2>3 DEF MovesLog
<1> QED
  BY <1>1, <1>2, <1>3, SealersStep DEF Seals, SealerMovesLog

LEMMA LogTrueKept ==
    ASSUME NEW w, NEW d, NEW s \in Seq(Lines), LogTrue(w, s, d)
    PROVE  /\ \A v : w \subseteq v => LogTrue(v, s, d)
           /\ \A t \in Seq(Lines) : LogTrue(w, t, d) => LogTrue(w, s \o t, d)
           /\ \A l \in Lines : DayOf[l.id] = d => LogTrue(w \cup {l}, Append(s, l), d)
<1>1. \A v : w \subseteq v => LogTrue(v, s, d)
  BY DEF LogTrue
<1>2. ASSUME NEW t \in Seq(Lines), LogTrue(w, t, d)
      PROVE  LogTrue(w, s \o t, d)
  <2>1. Len(s \o t) = Len(s) + Len(t) /\ Len(s) \in Nat /\ Len(t) \in Nat
    BY ConcatProperties, LenProperties
  <2> SUFFICES ASSUME NEW k \in 1..Len(s \o t)
               PROVE  (s \o t)[k] \in w /\ DayOf[(s \o t)[k].id] = d
    BY DEF LogTrue
  <2>2. CASE k <= Len(s)
    <3>1. k \in 1..Len(s) /\ (s \o t)[k] = s[k]
      BY <2>1, <2>2
    <3> QED
      BY <3>1 DEF LogTrue
  <2>3. CASE k > Len(s)
    <3>1. k - Len(s) \in 1..Len(t) /\ (s \o t)[k] = t[k - Len(s)]
      BY <2>1, <2>3
    <3> QED
      BY <3>1, <1>2 DEF LogTrue
  <2> QED
    BY <2>1, <2>2, <2>3
<1>3. ASSUME NEW l \in Lines, DayOf[l.id] = d
      PROVE  LogTrue(w \cup {l}, Append(s, l), d)
  <2> SUFFICES ASSUME NEW k \in 1..Len(Append(s, l))
               PROVE  Append(s, l)[k] \in w \cup {l} /\ DayOf[Append(s, l)[k].id] = d
    BY DEF LogTrue
  <2>1. k \in 1..Len(s) \/ k = Len(s) + 1
    BY AppendProperties, LenProperties
  <2>2. Append(s, l)[k] = IF k = Len(s) + 1 THEN l ELSE s[k]
    BY <2>1
  <2> QED
    BY <1>3, <2>1, <2>2 DEF LogTrue
<1> QED
  BY <1>1, <1>2, <1>3

LEMMA RebuildLines ==
    ASSUME TypeOK, RebuildSteps
    PROVE  \/ reb'.lines \in {reb.lines, <<>>}
           \/ \E f \in Dates \X Sources : reb'.lines = Content(f)
           \/ reb.lines # <<>> /\ reb'.lines = Tail(reb.lines)
<1>1. reb \in RebStates
  BY DEF TypeOK, RebStates
<1>2. ASSUME NEW r \in RebStates
      PROVE  EnterLogPhase(r).lines = r.lines /\ EnterRehydrate(r).lines = r.lines
  BY DEF EnterLogPhase, EnterRehydrate, RebStates
<1>3. IdleReb.lines = <<>>
  BY DEF IdleReb
<1>4. ASSUME NEW o \in Options, RebuildBegins(o)
      PROVE  reb'.lines = <<>>
  <2> DEFINE x == [IdleReb EXCEPT !.log = o.log, !.rehydrate = o.rehydrate,
                                  !.quiet = o.truncate]
  <2>1. x \in RebStates /\ x.lines = <<>>
    <3>1. IdleReb \in RebStates
      BY DEF RebStates, IdleReb, RebPcs
    <3> QED
      BY <1>3, <3>1, OptionsAssumption DEF RebStates
  <2>2. reb' = IF o.truncate THEN [x EXCEPT !.pc = "drop"] ELSE EnterLogPhase(x)
    BY <1>4 DEF RebuildBegins
  <2>3. [x EXCEPT !.pc = "drop"].lines = x.lines
    BY <2>1 DEF RebStates
  <2> QED
    BY <1>2, <2>1, <2>2, <2>3
<1>5. CASE TruncateRebuildableTables \/ ListArchive \/ ListLogDir
  BY <1>1, <1>2, <1>5
  DEF TruncateRebuildableTables, DropVisits, DropEvents, DropSnapshots, ListArchive,
      ListLogDir, RebStates
<1>9. CASE RehydrateFilesystem \/ RebuildEnds
  BY <1>1, <1>3, <1>9 DEF RehydrateFilesystem, RebuildEnds, RebStates
<1>6. CASE EndReplay
  <2>1. [reb EXCEPT !.skipped = reb.skipped \/ reb.pending # {}, !.pending = {}] \in RebStates
    BY <1>1 DEF RebStates
  <2>2. [reb EXCEPT !.skipped = reb.skipped \/ reb.pending # {},
                    !.pending = {}].lines = reb.lines
    BY <1>1 DEF RebStates
  <2> QED
    BY <1>2, <1>6, <2>1, <2>2 DEF EndReplay
<1>7. ASSUME NEW f \in Dates \X Sources, OpenFile(f)
      PROVE  reb'.lines \in {<<>>, Content(f)}
  <2>1. CASE Content(f) = <<>>
    BY <1>3, <1>7, <2>1 DEF OpenFile
  <2>2. CASE Content(f) # <<>>
    BY <1>1, <1>7, <2>2 DEF OpenFile, RebStates
  <2> QED
    BY <2>1, <2>2
<1>8. CASE ReplayOneLine
  BY <1>1, <1>8 DEF ReplayOneLine, RebStates
<1> QED
  BY <1>4, <1>5, <1>6, <1>7, <1>8, <1>9 DEF RebuildSteps

LEMMA NextLogs == TypeOK /\ LogsInv /\ [Next]_vars => LogsInv'
<1> SUFFICES ASSUME TypeOK, LogsInv, [Next]_vars PROVE LogsInv'
  OBVIOUS
<1>1. /\ log \in [Dates -> Seq(Lines)] /\ sealedLog \in [Dates -> Seq(Lines)]
      /\ reb.lines \in Seq(Lines) /\ reb \in RebStates
  BY DEF TypeOK, SealTypeOK, RebStates
<1>2. ASSUME SameLogs, written' = written, reb'.lines \in {reb.lines, <<>>}
      PROVE  LogsInv'
  BY <1>2 DEF LogsInv, SameLogs
<1>3. ASSUME NEW i \in Invs, HostSteps(i)
      PROVE  LogsInv'
  <2>1. CASE HostStores(i) \/ HostArchives(i)
    <3>1. SameLogs /\ written' = written /\ Disturb
      BY <2>1, ArchiveMoves DEF HostStores, SameLogs
    <3>2. reb'.lines = reb.lines
      BY <1>1, <3>1 DEF Disturb, RebStates
    <3> QED
      BY <1>2, <3>1, <3>2
  <2>2. ASSUME NEW h \in {"action", "success", "error"}, AppendLine(i, h),
               sealedLog' = sealedLog
        PROVE  LogsInv'
    <3> DEFINE l == [id |-> i, half |-> h]
    <3>1. l \in Lines /\ DayOf[l.id] \in Dates
      BY MsgTyped DEF Lines
    <3>2. /\ log' = [log EXCEPT ![DayOf[l.id]] = Append(@, l)]
          /\ written' = written \cup {l}
          /\ reb'.lines = reb.lines
      BY <1>1, <2>2 DEF AppendLine, Disturb, RebStates
    <3> HIDE DEF l
    <3>3. ASSUME NEW d \in Dates
          PROVE  LogTrue(written', log'[d], d) /\ LogTrue(written', sealedLog'[d], d)
      <4>1. /\ log[d] \in Seq(Lines) /\ sealedLog[d] \in Seq(Lines)
            /\ LogTrue(written, log[d], d) /\ LogTrue(written, sealedLog[d], d)
        BY <1>1 DEF LogsInv
      <4>2. LogTrue(written', sealedLog'[d], d)
        BY <2>2, <3>2, <4>1, LogTrueKept
      <4>3. CASE d = DayOf[l.id]
        <5>1. log'[d] = Append(log[d], l)
          BY <1>1, <3>1, <3>2, <4>3
        <5> QED
          BY <3>1, <3>2, <4>1, <4>2, <4>3, <5>1, LogTrueKept
      <4>4. CASE d # DayOf[l.id]
        <5>1. log'[d] = log[d]
          BY <1>1, <3>2, <4>4
        <5> QED
          BY <3>2, <4>1, <4>2, <5>1, LogTrueKept
      <4> QED
        BY <4>3, <4>4
    <3> QED
      BY <3>2, <3>3 DEF LogsInv
  <2>3. CASE HostLogs(i)
    BY <2>2, <2>3 DEF HostLogs
  <2>4. CASE HostResult(i)
    BY <2>2, <2>4 DEF HostResult
  <2> QED
    BY <1>3, <2>1, <2>3, <2>4 DEF HostSteps
<1>4. CASE Rebuilds
  <2>1. SameLogs /\ written' = written
    BY <1>4 DEF Rebuilds, SameArchive, SameHosts
  <2>2. \A k \in 1..Len(reb'.lines) : reb'.lines[k] \in written'
    <3>1. CASE reb'.lines \in {reb.lines, <<>>}
      BY <2>1, <3>1 DEF LogsInv
    <3>2. ASSUME NEW f \in Dates \X Sources, reb'.lines = Content(f)
          PROVE  \A k \in 1..Len(reb'.lines) : reb'.lines[k] \in written'
      <4>1. f[1] \in Dates
        OBVIOUS
      <4> QED
        BY <2>1, <3>2, <4>1 DEF LogsInv, LogTrue, Content
    <3>3. CASE reb.lines # <<>> /\ reb'.lines = Tail(reb.lines)
      <4>1. \A k \in 1..Len(Tail(reb.lines)) : /\ k + 1 \in 1..Len(reb.lines)
                                               /\ Tail(reb.lines)[k] = reb.lines[k + 1]
        BY <1>1, <3>3
      <4> QED
        BY <2>1, <3>3, <4>1 DEF LogsInv
    <3> QED
      BY <1>4, <3>1, <3>2, <3>3, RebuildLines DEF Rebuilds
  <2> QED
    BY <2>1, <2>2 DEF LogsInv, SameLogs
<1>5. CASE Seals
  <2>1. written' = written /\ reb'.lines = reb.lines
    BY <1>5, SealersReb DEF Seals, SameHosts
  <2>2. ASSUME NEW d \in Dates
        PROVE  LogTrue(written, log'[d], d) /\ LogTrue(written, sealedLog'[d], d)
    <3>1. /\ log[d] \in Seq(Lines) /\ sealedLog[d] \in Seq(Lines)
          /\ LogTrue(written, log[d], d) /\ LogTrue(written, sealedLog[d], d)
      BY <1>1 DEF LogsInv
    <3>2. LogTrue(written, <<>>, d)
      BY DEF LogTrue
    <3>3. LogTrue(written, sealedLog[d] \o log[d], d)
      BY <3>1, LogTrueKept
    <3> QED
      BY <1>5, <3>1, <3>2, <3>3, SealersMoveLogs DEF LogsMove
  <2> QED
    BY <2>1, <2>2 DEF LogsInv
<1>6. CASE \E i \in Invs : HostFails(i)
  BY <1>2, <1>6 DEF HostFails, SameArchive
<1>7. CASE \E d \in Dates : ManifestGoes(d)
  BY <1>2, <1>7 DEF ManifestGoes, SameHosts
<1>8. CASE DayEnds \/ SealFails \/ Idles
  <2>1. IdleReb.lines = <<>>
    BY DEF IdleReb
  <2> QED
    BY <1>2, <1>8, <2>1 DEF DayEnds, SealFails, Idles, SameArchive, SameHosts
<1> QED
  BY <1>3, <1>4, <1>5, <1>6, <1>7, <1>8, KindsOfSteps

(***************************************************************************)
(* No event without a committed invocation.                                *)
(***************************************************************************)
LEMMA NextNoPhantoms ==
    TypeOK /\ HostsInv /\ LogsInv /\ NoPhantoms /\ [Next]_vars => NoPhantoms'
<1> SUFFICES ASSUME TypeOK, HostsInv, LogsInv, NoPhantoms, [Next]_vars PROVE NoPhantoms'
  OBVIOUS
<1>1. CASE db' = db /\ stored \subseteq stored'
  BY <1>1 DEF NoPhantoms
<1>2. ASSUME NEW i \in Invs, HostStores(i) PROVE NoPhantoms'
  <2>1. db'.events = db.events \cup EvSet(i) /\ stored' = stored \cup {i}
    BY <1>2, HostWriteEffect DEF HostStores, TypeOK, SealTypeOK
  <2> QED
    BY <2>1 DEF NoPhantoms, EvSet
<1>3. ASSUME DropVisits \/ \E t \in Tags : DropEvents(t) PROVE NoPhantoms'
  <2>1. db'.events \subseteq db.events
    BY <1>3 DEF DropVisits, DropEvents, EmptyDb, TypeOK, SealTypeOK, Db
  <2>2. stored' = stored
    BY <1>3 DEF DropVisits, DropEvents
  <2> QED
    BY <2>1, <2>2 DEF NoPhantoms
<1>4. CASE ReplayOneLine
  <2> DEFINE l == Head(reb.lines)
  <2>1. l \in Lines /\ l = reb.lines[1] /\ 1 \in 1..Len(reb.lines)
    BY <1>4 DEF ReplayOneLine, TypeOK
  <2>2. l.id \in Invs
    BY <2>1 DEF Lines
  <2>3. CASE Applies(l)
    <3>1. db'.events = db.events \cup EvSet(l.id) /\ stored' = stored
      BY <1>4, <2>2, <2>3, ApplyActionEffect DEF ReplayOneLine, TypeOK, SealTypeOK, historyVars
    <3>2. l = LineOf(l.id, "success") /\ l \in written
      BY <2>1, <2>3 DEF Applies, Lines, LineOf, LogsInv
    <3>3. l.id \in stored
      BY <2>2, <3>2 DEF HostsInv, HostTrue
    <3> QED
      BY <3>1, <3>3 DEF NoPhantoms, EvSet
  <2>4. CASE ~Applies(l)
    BY <1>1, <1>4, <2>4 DEF ReplayOneLine, historyVars
  <2> QED
    BY <2>3, <2>4
<1>5. ASSUME NEW i \in Invs, HostSteps(i) PROVE NoPhantoms'
  BY <1>1, <1>2, <1>5, HostTables
<1>6. CASE Rebuilds
  BY <1>1, <1>3, <1>4, <1>6, TablesFrame DEF Rebuilds, SameHosts
<1> QED
  BY <1>1, <1>5, <1>6, KindsOfSteps
  DEF HostFails, ManifestGoes, DayEnds, Seals, SealFails, Idles, SameTables, SameHosts

(***************************************************************************)
(* The database never holds an event that no host committed, whatever is   *)
(* in the logs of invocations that failed or were cut short.               *)
(***************************************************************************)
THEOREM NoPhantomsEver == Spec => []NoPhantoms
<1>1. Init => NoPhantoms
  BY DEF Init, SealInit, EmptyDb, NoPhantoms
<1> QED
  BY <1>1, InitType, NextType, InitHosts, NextHosts, InitLogs, NextLogs, NextNoPhantoms, PTL
  DEF Spec

(***************************************************************************)
(* Days, manifests and the sealing programs.  A day has an excuse for not  *)
(* being sealed properly if somebody removed its manifest and nobody has   *)
(* written it since; no step takes manifest and excuse away together.      *)
(***************************************************************************)
Absent(d) == manifest[d].mode = "absent"
Excused(d) == ~Absent(d) \/ d \in deleted

ExcuseInv ==
    \A d \in Dates : row[d] = "sealed" \/ At("movelog", d) \/ At("flip", d) => Excused(d)

LEMMA DatesAreNumbers == \A d \in Dates : d \in Nat
BY DEF Dates

LEMMA FirstIsOne ==
    ASSUME NEW S \in SUBSET Dates, NEW d, NEW e, IsFirst(d, S), IsFirst(e, S)
    PROVE  d = e
<1>1. d \in Nat /\ e \in Nat /\ d <= e /\ e <= d
  BY DatesAreNumbers DEF IsFirst
<1> QED
  BY <1>1

LEMMA ExcuseStays ==
    ASSUME TypeOK, [Next]_vars, NEW d \in Dates, Excused(d)
    PROVE  Excused(d)'
<1>1. manifest \in [Dates -> Manifest]
  BY DEF TypeOK, SealTypeOK
<1>2. ASSUME manifest' = manifest, deleted' = deleted PROVE Excused(d)'
  BY <1>2 DEF Excused, Absent
<1>3. ASSUME ManifestGone PROVE Excused(d)'
  BY <1>3 DEF ManifestGone, Excused, Absent
<1>4. ASSUME NEW i \in Invs, HostSteps(i) PROVE Excused(d)'
  <2>1. CASE HostRemovesManifest(i)
    BY <1>1, <2>1 DEF HostRemovesManifest, Excused, Absent
  <2>2. CASE HostWritesManifest(i)
    BY <1>1, <2>2 DEF HostWritesManifest, Excused, Absent
  <2>3. CASE HostCopies(i) \/ HostUpdates(i) \/ HostLooks(i) \/ HostInserts(i)
    BY <1>2, <2>3
    DEF HostCopies, HostUpdates, HostLooks, HostInserts, archiveVars, historyVars
  <2>4. CASE HostLogs(i) \/ HostStores(i) \/ HostResult(i)
    BY <1>2, <2>4 DEF HostLogs, HostStores, HostResult
  <2> QED
    BY <1>4, <2>1, <2>2, <2>3, <2>4 DEF HostSteps, HostArchives
<1>5. ASSUME NEW e \in Dates, ManifestGoes(e) PROVE Excused(d)'
  BY <1>1, <1>5 DEF ManifestGoes, DeleteManifest, Excused, Absent
<1>6. CASE Seals
  <2>1. CASE SealCompletedDays \/ \E e \in Dates : SnapshotSealer(e)
    BY <1>2, <1>3, <1>6, <2>1, SealersStep
    DEF Seals, SealCompletedDays, SnapshotSealer, archiveVars, SealerMovesLog, MovesLog,
        MoveLogIntoSealedDir, MergeOrphanLog, UnlinkOrphanLog
  <2>2. ASSUME NEW e \in Dates, SealerMovesLog(e) PROVE Excused(d)'
    BY <1>2, <2>2
    DEF SealerMovesLog, MovesLog, MoveLogIntoSealedDir, MergeOrphanLog, UnlinkOrphanLog
  <2> QED
    BY <1>3, <1>6, <2>1, <2>2, SealersStep DEF Seals
<1> QED
  BY <1>2, <1>3, <1>4, <1>5, <1>6, KindsOfSteps
  DEF HostFails, DayEnds, Rebuilds, SealFails, SealersFail, Idles, SameArchive

LEMMA RebuildRows ==
    ASSUME TypeOK, RebuildSteps, NEW d \in Dates
    PROVE  row'[d] = "sealed" => row[d] = "sealed" \/ ~Absent(d)
<1> USE DEF TypeOK, SealTypeOK
<1>1. ASSUME NEW o, RebuildBegins(o)
      PROVE  row' = row
  BY <1>1 DEF RebuildBegins, archiveVars
<1>2. ASSUME NEW f, OpenFile(f)
      PROVE  row' = row \/ row' = WithRow(f[1])
  BY <1>2 DEF OpenFile
<1>3. ASSUME ListArchive \/ ListLogDir \/ ReplayOneLine \/ EndReplay \/ RebuildEnds
      PROVE  row' = row
  BY <1>3 DEF ListArchive, ListLogDir, ReplayOneLine, EndReplay, RebuildEnds, archiveVars
<1>4. ASSUME TruncateRebuildableTables
      PROVE  row'[d] \in {"none", row[d]}
  BY <1>4 DEF TruncateRebuildableTables, DropVisits, DropEvents, DropSnapshots
<1>5. ASSUME RehydrateFilesystem
      PROVE  row'[d] = "sealed" => row[d] = "sealed" \/ ~Absent(d)
  BY <1>5 DEF RehydrateFilesystem, Absent
<1>6. \A e : WithRow(e)[d] = "sealed" => row[d] = "sealed"
  BY DEF WithRow
<1> QED
  BY <1>1, <1>2, <1>3, <1>4, <1>5, <1>6 DEF RebuildSteps

LEMMA HostRows ==
    ASSUME TypeOK, NEW i \in Invs, HostSteps(i), NEW d \in Dates
    PROVE  row'[d] = "sealed" => row[d] = "sealed"
<1> USE DEF TypeOK, SealTypeOK
<1>1. row' = row \/ row' = WithRow(DayOf[i])
  BY DEF HostSteps, HostLogs, HostStores, HostArchives, HostCopies, HostUpdates, HostLooks,
         HostInserts, HostRemovesManifest, HostWritesManifest, HostResult, archiveVars
<1> QED
  BY <1>1 DEF WithRow

(* Where the sealer goes after a day and after a merge.                    *)
LEMMA NextDay ==
    ASSUME TypeOK, NEW e, sealer' = AfterDay(e)
    PROVE  \/ sealer'.pc = "list" /\ sealer'.dates = sealer.dates \ {e}
           \/ sealer'.pc \in {"merge", "idle"}
<1>1. \/ sealer' = [sealer EXCEPT !.pc = "list", !.dates = sealer.dates \ {e}, !.lists = {}]
      \/ sealer' = [IdleSealer EXCEPT !.pc = "merge",
                            !.dates = {x \in Dates : x < today /\ log[x] # <<>>}]
      \/ sealer' = IdleSealer
  BY DEF AfterDay
<1>2. sealer \in Sealer
  BY DEF TypeOK, SealTypeOK
<1>3. [sealer EXCEPT !.pc = "list", !.dates = sealer.dates \ {e}, !.lists = {}].pc = "list"
  BY <1>2 DEF Sealer
<1>4. [sealer EXCEPT !.pc = "list", !.dates = sealer.dates \ {e}, !.lists = {}].dates
        = sealer.dates \ {e}
  BY <1>2 DEF Sealer
<1>5. /\ IdleSealer.pc = "idle"
      /\ \A S : [IdleSealer EXCEPT !.pc = "merge", !.dates = S].pc = "merge"
  BY DEF IdleSealer
<1> QED
  BY <1>1, <1>3, <1>4, <1>5

LEMMA NextMerge ==
    ASSUME TypeOK, sealer.pc \in {"merge", "unlink"}, NEW e, sealer' = AfterMerge(e)
    PROVE  sealer'.pc \in {"merge", "idle"}
BY DEF AfterMerge, TypeOK, SealTypeOK, Sealer, IdleSealer

(* The steps of a sealer, by the place they start from and lead to.        *)
LEMMA SealerGoes ==
    ASSUME TypeOK, SealersRun
    PROVE  \/ /\ SealCompletedDays \/ \E e \in Dates : SnapshotSealer(e)
              /\ sealer'.pc = "list"
           \/ sealer.pc = "list" /\ sealer'.pc = "write" /\ sealer'.dates = sealer.dates
           \/ \E e \in Dates :
                /\ IsFirst(e, sealer.dates)
                /\ \/ /\ WriteManifest(e) /\ sealer.pc = "write"
                      /\ sealer'.pc = "movelog" /\ sealer'.dates = sealer.dates
                   \/ /\ MoveLogIntoSealedDir(e) /\ sealer.pc = "movelog"
                      /\ sealer'.pc = "flip" /\ sealer'.dates = sealer.dates
                   \/ /\ FlipSealed(e) /\ sealer.pc = "flip"
                      /\ sealer'.pc = "clear" /\ sealer'.dates = sealer.dates
                   \/ ClearSealError(e) /\ sealer.pc = "clear" /\ sealer' = AfterDay(e)
           \/ /\ sealer.pc \in {"merge", "unlink"}
              /\ sealer'.pc \in {"merge", "unlink", "idle"}
<1>1. sealer \in Sealer
  BY DEF TypeOK, SealTypeOK
<1>2. ASSUME SealCompletedDays \/ \E e \in Dates : SnapshotSealer(e)
      PROVE  sealer'.pc = "list"
  BY <1>2 DEF SealCompletedDays, SnapshotSealer, IdleSealer
<1>3. \A pc : [sealer EXCEPT !.pc = pc].pc = pc /\ [sealer EXCEPT !.pc = pc].dates = sealer.dates
  BY <1>1 DEF Sealer
<1>4. ASSUME NEW e \in Dates, BuildManifestRows(e)
      PROVE  sealer.pc = "list" /\ sealer'.pc = "write" /\ sealer'.dates = sealer.dates
  BY <1>1, <1>4 DEF BuildManifestRows, At, Sealer
<1>5. ASSUME NothingToMerge PROVE sealer.pc = "merge" /\ sealer'.pc = "idle"
  BY <1>5 DEF NothingToMerge, IdleSealer
<1>6. ASSUME NEW e \in Dates, MergeOrphanLog(e) \/ UnlinkOrphanLog(e)
      PROVE  sealer.pc \in {"merge", "unlink"} /\ sealer'.pc \in {"merge", "unlink", "idle"}
  <2>1. sealer.pc \in {"merge", "unlink"}
    BY <1>6 DEF MergeOrphanLog, UnlinkOrphanLog, At
  <2>2. sealer' = [sealer EXCEPT !.pc = "unlink"] \/ sealer' = AfterMerge(e)
    BY <1>6 DEF MergeOrphanLog, UnlinkOrphanLog, Goto
  <2> QED
    BY <1>3, <2>1, <2>2, NextMerge
<1>7. ASSUME NEW e \in Dates, WriteManifest(e) \/ MoveLogIntoSealedDir(e) \/ FlipSealed(e)
      PROVE  /\ IsFirst(e, sealer.dates) /\ sealer'.dates = sealer.dates
             /\ WriteManifest(e) => sealer.pc = "write" /\ sealer'.pc = "movelog"
             /\ MoveLogIntoSealedDir(e) => sealer.pc = "movelog" /\ sealer'.pc = "flip"
             /\ FlipSealed(e) => sealer.pc = "flip" /\ sealer'.pc = "clear"
  BY <1>3, <1>7 DEF WriteManifest, MoveLogIntoSealedDir, FlipSealed, Goto, At
<1>8. ASSUME NEW e \in Dates, ClearSealError(e)
      PROVE  IsFirst(e, sealer.dates) /\ sealer.pc = "clear" /\ sealer' = AfterDay(e)
  BY <1>8 DEF ClearSealError, At
<1> QED
  BY <1>2, <1>4, <1>5, <1>6, <1>7, <1>8, SealersStep DEF SealerMovesLog, MovesLog

(* A fault makes the sealer give the day up.                               *)
LEMMA SealerGivesUp ==
    ASSUME TypeOK, SealFails
    PROVE  \/ sealer'.pc \in {"merge", "idle"}
           \/ \E e \in Dates : /\ IsFirst(e, sealer.dates)
                               /\ sealer.pc \in {"list", "write", "movelog", "flip"}
                               /\ sealer'.pc = "list" /\ sealer'.dates = sealer.dates \ {e}
<1>1. CASE SealerKilled
  BY <1>1 DEF SealerKilled, IdleSealer
<1>2. ASSUME NEW e \in Dates, SealThrows(e)
      PROVE  /\ sealer' = AfterDay(e) /\ IsFirst(e, sealer.dates)
             /\ sealer.pc \in {"list", "write", "movelog", "flip"}
  BY <1>2 DEF SealThrows, At
<1>3. ASSUME NEW e \in Dates, MergeThrows(e)
      PROVE  sealer' = AfterMerge(e) /\ sealer.pc \in {"merge", "unlink"}
  BY <1>3 DEF MergeThrows, At
<1> QED
  BY <1>1, <1>2, <1>3, NextDay, NextMerge DEF SealFails, SealersFail, SealerFault

LEMMA SealerRows ==
    ASSUME TypeOK, SealersRun, NEW d \in Dates
    PROVE  row'[d] = "sealed" => row[d] = "sealed" \/ At("flip", d)
<1> USE DEF TypeOK, SealTypeOK
<1>1. ASSUME NEW e \in Dates, SnapshotSealer(e) \/ BuildManifestRows(e) \/ WriteManifest(e)
                              \/ ClearSealError(e) \/ MoveLogIntoSealedDir(e)
                              \/ UnlinkOrphanLog(e)
      PROVE  row' = row
  BY <1>1 DEF SnapshotSealer, BuildManifestRows, WriteManifest, ClearSealError,
              MoveLogIntoSealedDir, UnlinkOrphanLog, archiveVars
<1>2. ASSUME SealCompletedDays \/ NothingToMerge PROVE row' = row
  BY <1>2 DEF SealCompletedDays, NothingToMerge, archiveVars
<1>3. ASSUME NEW e \in Dates, FlipSealed(e)
      PROVE  row'[d] = "sealed" => row[d] = "sealed" \/ At("flip", d)
  BY <1>3 DEF FlipSealed
<1>4. ASSUME NEW e \in Dates, MergeOrphanLog(e)
      PROVE  row'[d] = "sealed" => row[d] = "sealed"
  BY <1>4 DEF MergeOrphanLog, WithRow
<1> QED
  BY <1>1, <1>2, <1>3, <1>4, SealersStep DEF SealerMovesLog, MovesLog

LEMMA NextExcuse == TypeOK /\ ExcuseInv /\ [Next]_vars => ExcuseInv'
<1> SUFFICES ASSUME TypeOK, ExcuseInv, [Next]_vars, NEW d \in Dates,
                    row'[d] = "sealed" \/ At("movelog", d)' \/ At("flip", d)'
             PROVE  Excused(d)'
  BY DEF ExcuseInv
<1>1. Excused(d) => Excused(d)'
  BY ExcuseStays
<1>2. ASSUME row'[d] = "sealed" => row[d] = "sealed" \/ At("flip", d) \/ ~Absent(d),
             At("movelog", d)' => At("movelog", d),
             At("flip", d)' => At("flip", d) \/ At("movelog", d)
      PROVE  Excused(d)'
  BY <1>1, <1>2 DEF ExcuseInv, Excused
<1>3. ASSUME sealer' = sealer, row'[d] = "sealed" => row[d] = "sealed" \/ ~Absent(d)
      PROVE  Excused(d)'
  BY <1>2, <1>3 DEF At
<1>4. CASE Seals
  <2>0. /\ sealer \in Sealer /\ manifest \in [Dates -> Manifest]
        /\ row'[d] = "sealed" => row[d] = "sealed" \/ At("flip", d)
    BY <1>4, SealerRows DEF TypeOK, SealTypeOK, Seals
  <2>1. ASSUME sealer'.pc \notin {"movelog", "flip"} PROVE Excused(d)'
    BY <1>2, <2>0, <2>1 DEF At
  <2>2. ASSUME NEW e \in Dates, WriteManifest(e), IsFirst(e, sealer.dates),
               sealer'.pc = "movelog", sealer'.dates = sealer.dates
        PROVE  Excused(d)'
    <3>1. CASE d = e
      BY <2>0, <2>2, <3>1 DEF WriteManifest, Excused, Absent
    <3>2. CASE d # e
      <4>1. ~At("movelog", d)' /\ ~At("flip", d)'
        BY <2>0, <2>2, <3>2, FirstIsOne DEF At, Sealer
      <4> QED
        BY <1>2, <2>0, <4>1
    <3> QED
      BY <3>1, <3>2
  <2>3. ASSUME sealer.pc = "movelog", sealer'.pc = "flip", sealer'.dates = sealer.dates
        PROVE  Excused(d)'
    BY <1>2, <2>0, <2>3 DEF At
  <2> QED
    BY <1>4, <2>1, <2>2, <2>3, SealerGoes, NextDay DEF Seals
<1>5. CASE SealFails
  <2>1. ~At("movelog", d)' /\ ~At("flip", d)' /\ row' = row
    BY <1>5, SealerGivesUp DEF At, SealFails
  <2> QED
    BY <1>2, <2>1
<1>6. ASSUME NEW i \in Invs, HostSteps(i) PROVE Excused(d)'
  <2>1. sealer' = sealer
    BY <1>6, ArchiveMoves DEF HostSteps, HostLogs, HostStores, HostResult
  <2> QED
    BY <1>3, <1>6, <2>1, HostRows
<1>7. CASE Rebuilds
  BY <1>3, <1>7, RebuildRows DEF Rebuilds
<1> QED
  BY <1>3, <1>4, <1>5, <1>6, <1>7, KindsOfSteps DEF HostFails, ManifestGoes, DayEnds, Idles

LEMMA InitExcuse == Init => ExcuseInv
BY DEF Init, SealInit, ExcuseInv, At, IdleSealer

(***************************************************************************)
(* A day that the table calls sealed has its manifest, but for a day whose *)
(* manifest the user or a program has removed and nobody has written       *)
(* since: through kills, repeated seals, stragglers and rebuilds.          *)
(***************************************************************************)
THEOREM SealedHaveManifests == Spec => []SealedHasManifest
<1>1. ExcuseInv => SealedHasManifest
  BY DEF ExcuseInv, Excused, Absent, SealedHasManifest
<1> QED
  BY <1>1, InitType, NextType, InitExcuse, NextExcuse, PTL DEF Spec

(***************************************************************************)
(* Days that are calm: over, no invocation of them at work, and nothing of *)
(* them in LOG_DIR.  A day that a program is to seal although its log is   *)
(* in the archive is calm, unless the history calls it resealed: then the  *)
(* move of its log to the archive replaces nothing.                        *)
(***************************************************************************)
Settled(d) == d < today /\ \A i \in Invs : DayOf[i] = d => host[i] \in {"new", "over"}
Calm(d) == log[d] = <<>> /\ Settled(d)

Waits(d) ==
    /\ d \in sealer.dates
    /\ \/ sealer.pc \in {"list", "write", "movelog"}
       \/ sealer.pc \in {"flip", "clear"} /\ ~IsFirst(d, sealer.dates)

CalmInv == \A d \in Dates : Waits(d) /\ sealedLog[d] # <<>> /\ d \notin resealed => Calm(d)

LEMMA BusyHosts ==
    ASSUME TypeOK, NEW i \in Invs, HostSteps(i) \/ HostFails(i)
    PROVE  /\ ~Settled(DayOf[i])
           /\ \A j \in Invs \ {i} : host'[j] = host[j]
           /\ today' = today
<1>1. DayOf[i] \in Nat /\ DayOf[i] \in Dates /\ today \in Nat
  BY MsgTyped, DatesAreNumbers DEF TypeOK, SealTypeOK
<1>2. HostArchives(i) => /\ host[i] \notin {"new", "over"} /\ today' = today
                         /\ \E pc : host' = [host EXCEPT ![i] = pc]
  BY ArchiveMoves DEF Archiving
<1>3. today = DayOf[i] \/ host[i] \notin {"new", "over"}
  BY <1>2 DEF HostSteps, HostLogs, HostStores, HostResult, HostFails, HostMishap,
         HostLineFails, HostStoreFails, HostArchiveFails, HostKilled, Archiving
<1>4. ~Settled(DayOf[i])
  BY <1>1, <1>3 DEF Settled
<1>5. today' = today /\ \E pc : host' = [host EXCEPT ![i] = pc]
  BY <1>2 DEF HostSteps, HostLogs, HostStores, HostResult, HostFails, HostMishap,
         HostLineFails, HostStoreFails, HostArchiveFails, HostKilled
<1> QED
  BY <1>4, <1>5 DEF TypeOK

LEMMA SettledStays ==
    ASSUME TypeOK, [Next]_vars, NEW d \in Dates, Settled(d)
    PROVE  Settled(d)'
<1>1. CASE SameHosts /\ today' = today
  BY <1>1 DEF Settled, SameHosts
<1>2. ASSUME NEW i \in Invs, HostSteps(i) \/ HostFails(i) PROVE Settled(d)'
  <2>1. DayOf[i] # d
    BY <1>2, BusyHosts
  <2> QED
    BY <1>2, <2>1, BusyHosts DEF Settled
<1>3. CASE DayEnds
  <2>1. today \in Nat /\ today' = today + 1 /\ d \in Nat
    BY <1>3, DatesAreNumbers DEF DayEnds, Midnight, TypeOK, SealTypeOK
  <2> QED
    BY <1>3, <2>1 DEF Settled, DayEnds, SameHosts
<1> QED
  BY <1>1, <1>2, <1>3, KindsOfSteps DEF ManifestGoes, Rebuilds, Seals, SealFails, Idles

(* What a host does to the logs of the days.                               *)
LEMMA HostLogsMove ==
    ASSUME TypeOK, NEW i \in Invs, HostSteps(i)
    PROVE  /\ sealedLog' = sealedLog /\ sealer' = sealer
           /\ \A d \in Dates \ {DayOf[i]} : log'[d] = log[d]
           /\ \/ log' = log /\ written' = written
              \/ \E h \in {"action", "success", "error"} : AppendLine(i, h)
BY ArchiveMoves DEF HostSteps, HostLogs, HostStores, HostResult, AppendLine, SameLogs, TypeOK,
                    SealTypeOK

LEMMA CalmStays ==
    ASSUME TypeOK, [Next]_vars, NEW d \in Dates, Calm(d)
    PROVE  Calm(d)'
<1>1. Settled(d)'
  BY SettledStays DEF Calm
<1>2. ASSUME SameLogs PROVE Calm(d)'
  BY <1>1, <1>2 DEF Calm, SameLogs
<1>3. ASSUME NEW i \in Invs, HostSteps(i) PROVE Calm(d)'
  <2>1. DayOf[i] # d
    BY <1>3, BusyHosts DEF Calm
  <2> QED
    BY <1>1, <1>3, <2>1, HostLogsMove DEF Calm
<1>4. CASE Seals
  BY <1>1, <1>4, SealersMoveLogs DEF LogsMove, Calm
<1> QED
  BY <1>2, <1>3, <1>4, KindsOfSteps
  DEF HostFails, ManifestGoes, DayEnds, Rebuilds, SealFails, Idles, SameArchive

LEMMA NextCalm == TypeOK /\ CalmInv /\ [Next]_vars => CalmInv'
<1> SUFFICES ASSUME TypeOK, CalmInv, [Next]_vars, NEW d \in Dates,
                    Waits(d)', sealedLog'[d] # <<>>, d \notin resealed'
             PROVE  Calm(d)'
  BY DEF CalmInv
<1>1. /\ sealer \in Sealer /\ log \in [Dates -> Seq(Lines)]
      /\ sealedLog \in [Dates -> Seq(Lines)]
  BY DEF TypeOK, SealTypeOK
<1>2. Calm(d) => Calm(d)'
  BY CalmStays
<1>3. ASSUME Waits(d), sealedLog[d] # <<>>, d \notin resealed PROVE Calm(d)'
  BY <1>2, <1>3 DEF CalmInv
<1>4. ASSUME sealer' = sealer, sealedLog' = sealedLog, resealed' = resealed PROVE Calm(d)'
  BY <1>3, <1>4 DEF Waits
<1>5. CASE Seals /\ sealer.pc = "idle"
  <2>1. ~NothingToMerge /\ \A e \in Dates : ~MovesLog(e)
    BY <1>5 DEF NothingToMerge, MovesLog, MoveLogIntoSealedDir, MergeOrphanLog,
                UnlinkOrphanLog, At
  <2>2. \A e \in Dates : /\ ~BuildManifestRows(e) /\ ~WriteManifest(e)
                         /\ ~FlipSealed(e) /\ ~ClearSealError(e)
    BY <1>5 DEF BuildManifestRows, WriteManifest, FlipSealed, ClearSealError, At
  <2>3. /\ SealCompletedDays \/ \E e \in Dates : SnapshotSealer(e)
        /\ resealed' = resealed \cup {e \in sealer'.dates : sealedLog[e] # <<>> /\ Unsettled(e)}
    BY <1>5, <2>1, <2>2, SealersStep DEF Seals, SealerMovesLog
  <2>4. sealedLog' = sealedLog
    BY <2>3 DEF SealCompletedDays, SnapshotSealer, archiveVars
  <2>5. ~Unsettled(d)
    BY <2>3, <2>4 DEF Waits
  <2>6. Calm(d)
    <3>1. d \in Nat /\ today \in Nat
      BY DatesAreNumbers DEF TypeOK, SealTypeOK
    <3> QED
      BY <2>5, <3>1 DEF Unsettled, Calm, Settled
  <2> QED
    BY <1>2, <2>6
<1>6. CASE Seals /\ sealer.pc # "idle"
  <2>1. ~SealCompletedDays /\ \A e \in Dates : ~SnapshotSealer(e)
    BY <1>6 DEF SealCompletedDays, SnapshotSealer
  <2>2. resealed' = resealed
    BY <1>6, <2>1, SealersStep DEF Seals, SealerMovesLog
  <2>3. Waits(d)
    <3>1. ASSUME NEW e \in Dates, IsFirst(e, sealer.dates), sealer'.pc = "list",
                 sealer'.dates = sealer.dates \ {e}, sealer.pc = "clear"
          PROVE  Waits(d)
      BY <1>1, <3>1, FirstIsOne DEF Waits, Sealer
    <3> QED
      BY <1>6, <2>1, <3>1, SealerGoes, NextDay DEF Seals, Waits, IsFirst
  <2>4. sealedLog[d] # <<>>
    <3>1. ASSUME NEW e \in Dates, MoveLogIntoSealedDir(e) PROVE d # e
      <4>1. sealer'.pc = "flip" /\ IsFirst(e, sealer'.dates)
        BY <1>1, <3>1 DEF MoveLogIntoSealedDir, At, Goto, Sealer
      <4> QED
        BY <4>1 DEF Waits
    <3>2. ASSUME NEW e \in Dates, MoveLogIntoSealedDir(e) PROVE sealedLog'[d] = sealedLog[d]
      BY <1>1, <3>1, <3>2 DEF MoveLogIntoSealedDir
    <3>3. ASSUME NEW e \in Dates, MergeOrphanLog(e) \/ UnlinkOrphanLog(e)
          PROVE  sealedLog[d] # <<>>
      BY <1>1, <3>3 DEF MergeOrphanLog, UnlinkOrphanLog
    <3>4. ASSUME NEW e \in Dates, BuildManifestRows(e) \/ WriteManifest(e) \/ FlipSealed(e)
                                  \/ ClearSealError(e)
          PROVE  sealedLog' = sealedLog
      BY <3>4 DEF BuildManifestRows, WriteManifest, FlipSealed, ClearSealError
    <3>5. NothingToMerge => sealedLog' = sealedLog
      BY DEF NothingToMerge, archiveVars
    <3> QED
      BY <1>6, <2>1, <3>2, <3>3, <3>4, <3>5, SealersStep DEF Seals, SealerMovesLog, MovesLog
  <2> QED
    BY <1>3, <2>2, <2>3, <2>4
<1>7. CASE SealFails
  <2>1. sealedLog' = sealedLog /\ resealed' = resealed
    BY <1>7 DEF SealFails, SameLogs
  <2>2. Waits(d)
    BY <1>1, <1>7, SealerGivesUp, FirstIsOne DEF Waits, Sealer
  <2> QED
    BY <1>3, <2>1, <2>2
<1>8. ASSUME NEW i \in Invs, HostSteps(i) PROVE Calm(d)'
  BY <1>4, <1>8, HostLogsMove, HostTables
<1> QED
  BY <1>4, <1>5, <1>6, <1>7, <1>8, KindsOfSteps
  DEF HostFails, ManifestGoes, DayEnds, Rebuilds, Idles, SameArchive, SameLogs

LEMMA InitCalm == Init => CalmInv
BY DEF Init, SealInit, CalmInv, Waits, IdleSealer

(***************************************************************************)
(* No line is lost.  Between the copy of a late log into the sealed one    *)
(* and its removal every line of it is in both.                            *)
(***************************************************************************)
MergeCovers == \A d \in Dates : At("unlink", d) => LinesOf(log[d]) \subseteq LinesOf(sealedLog[d])

KeptInv == MergeCovers /\ LinesKept

LEMMA LinesOfSeq ==
    ASSUME NEW s \in Seq(Lines)
    PROVE  /\ LinesOf(<<>>) = {}
           /\ \A l \in Lines : LinesOf(Append(s, l)) = LinesOf(s) \cup {l}
           /\ \A t \in Seq(Lines) : LinesOf(s \o t) = LinesOf(s) \cup LinesOf(t)
<1>1. LinesOf(<<>>) = {}
  BY DEF LinesOf
<1>2. ASSUME NEW l \in Lines PROVE LinesOf(Append(s, l)) = LinesOf(s) \cup {l}
  <2>1. Len(Append(s, l)) = Len(s) + 1 /\ Len(s) \in Nat
    OBVIOUS
  <2>2. \A k \in 1..Len(s) + 1 : Append(s, l)[k] = IF k = Len(s) + 1 THEN l ELSE s[k]
    OBVIOUS
  <2>3. Len(s) + 1 \in 1..Len(s) + 1
    BY <2>1
  <2> QED
    BY <2>1, <2>2, <2>3 DEF LinesOf
<1>3. ASSUME NEW t \in Seq(Lines) PROVE LinesOf(s \o t) = LinesOf(s) \cup LinesOf(t)
  <2>1. Len(s \o t) = Len(s) + Len(t) /\ Len(s) \in Nat /\ Len(t) \in Nat
    BY ConcatProperties, LenProperties
  <2>2. \A k \in 1..Len(s) : k \in 1..Len(s \o t) /\ (s \o t)[k] = s[k]
    BY <2>1
  <2>3. \A k \in 1..Len(t) : Len(s) + k \in 1..Len(s \o t) /\ (s \o t)[Len(s) + k] = t[k]
    BY <2>1
  <2>4. \A k \in 1..Len(s \o t) : \/ k \in 1..Len(s)
                                  \/ k - Len(s) \in 1..Len(t) /\ k = Len(s) + (k - Len(s))
    BY <2>1
  <2>5. \A k \in 1..Len(s \o t) : (s \o t)[k] \in LinesOf(s) \cup LinesOf(t)
    BY <2>2, <2>3, <2>4 DEF LinesOf
  <2> QED
    BY ZenonT(40), <2>2, <2>3, <2>5 DEF LinesOf
<1> QED
  BY <1>1, <1>2, <1>3

LEMMA OnlyMergeUnlinks ==
    ASSUME TypeOK, Seals, NEW d \in Dates, At("unlink", d)'
    PROVE  /\ At("merge", d) /\ log' = log
           /\ sealedLog'[d] = sealedLog[d] \o log[d]
<1>1. sealer \in Sealer /\ sealer'.pc = "unlink"
  BY DEF TypeOK, SealTypeOK, At
<1>2. ASSUME NEW e \in Dates, SnapshotSealer(e) \/ BuildManifestRows(e) \/ WriteManifest(e)
                              \/ FlipSealed(e) \/ MoveLogIntoSealedDir(e)
      PROVE  sealer'.pc # "unlink"
  BY <1>1, <1>2 DEF SnapshotSealer, BuildManifestRows, WriteManifest, FlipSealed,
              MoveLogIntoSealedDir, Goto, IdleSealer, Sealer
<1>3. ASSUME SealCompletedDays \/ NothingToMerge PROVE sealer'.pc # "unlink"
  <2>1. CASE SealCompletedDays
    <3>1. sealer'.pc = "list"
      BY <2>1 DEF SealCompletedDays, IdleSealer
    <3> QED
      BY <3>1
  <2>2. CASE NothingToMerge
    BY <2>2 DEF NothingToMerge, IdleSealer
  <2> QED
    BY <1>3, <2>1, <2>2
<1>4. ASSUME NEW e \in Dates, ClearSealError(e) PROVE sealer'.pc # "unlink"
  <2>1. sealer' = AfterDay(e)
    BY <1>4 DEF ClearSealError
  <2> QED
    BY <2>1, NextDay
<1>5. ASSUME NEW e \in Dates, UnlinkOrphanLog(e) PROVE sealer'.pc # "unlink"
  <2>1. sealer' = AfterMerge(e) /\ sealer.pc = "unlink"
    BY <1>5 DEF UnlinkOrphanLog, At
  <2>2. sealer'.pc \in {"merge", "idle"}
    BY <2>1, NextMerge
  <2> QED
    BY <2>2
<1>6. PICK e \in Dates : MergeOrphanLog(e)
  BY <1>1, <1>2, <1>3, <1>4, <1>5, SealersStep DEF Seals, SealerMovesLog, MovesLog
<1>7. sealedLog[e] # <<>>
  <2>1. SUFFICES ASSUME sealedLog[e] = <<>> PROVE FALSE
    OBVIOUS
  <2>2. sealer' = AfterMerge(e) /\ sealer.pc = "merge"
    BY <1>6, <2>1 DEF MergeOrphanLog, At
  <2>3. sealer'.pc \in {"merge", "idle"}
    BY <2>2, NextMerge
  <2> QED
    BY <1>1, <2>3
<1>8. /\ At("merge", e) /\ sealer' = [sealer EXCEPT !.pc = "unlink"] /\ log' = log
      /\ sealedLog' = [sealedLog EXCEPT ![e] = sealedLog[e] \o log[e]]
  BY <1>6, <1>7 DEF MergeOrphanLog, Goto
<1>9. e = d
  <2>1. sealer'.dates = sealer.dates /\ sealer.dates \in SUBSET Dates
    BY <1>1, <1>8 DEF Sealer
  <2>2. IsFirst(d, sealer.dates) /\ IsFirst(e, sealer.dates)
    BY <1>8, <2>1 DEF At
  <2> QED
    BY <2>1, <2>2, FirstIsOne
<1> QED
  BY <1>8, <1>9 DEF TypeOK, SealTypeOK

LEMMA SealsKeepLines ==
    ASSUME TypeOK, CalmInv, MergeCovers, Seals, NEW d \in Dates, d \notin resealed
    PROVE  LinesOf(log[d]) \cup LinesOf(sealedLog[d])
              \subseteq LinesOf(log'[d]) \cup LinesOf(sealedLog'[d])
<1>1. /\ log \in [Dates -> Seq(Lines)] /\ sealedLog \in [Dates -> Seq(Lines)]
      /\ log[d] \in Seq(Lines) /\ sealedLog[d] \in Seq(Lines)
  BY DEF TypeOK, SealTypeOK
<1>2. CASE SameLogs
  BY <1>2 DEF SameLogs
<1>3. ASSUME NEW e \in Dates, MoveLogIntoSealedDir(e)
      PROVE  \/ log'[d] = log[d] /\ sealedLog'[d] = sealedLog[d]
             \/ sealedLog[d] = <<>> /\ sealedLog'[d] = log[d]
  <2>1. CASE log[e] = <<>> \/ e # d
    BY <1>1, <1>3, <2>1 DEF MoveLogIntoSealedDir
  <2>2. CASE log[e] # <<>> /\ e = d
    <3>1. Waits(d)
      BY <1>3, <2>2 DEF MoveLogIntoSealedDir, At, IsFirst, Waits
    <3>2. sealedLog[d] = <<>>
      BY <2>2, <3>1 DEF CalmInv, Calm
    <3> QED
      BY <1>1, <1>3, <2>2, <3>2 DEF MoveLogIntoSealedDir
  <2> QED
    BY <2>1, <2>2
<1>4. ASSUME NEW e \in Dates, MergeOrphanLog(e)
      PROVE  log'[d] = log[d] /\ sealedLog'[d] \in {sealedLog[d], sealedLog[d] \o log[d]}
  BY <1>1, <1>4 DEF MergeOrphanLog
<1>5. ASSUME NEW e \in Dates, UnlinkOrphanLog(e)
      PROVE  /\ sealedLog'[d] = sealedLog[d]
             /\ log'[d] = log[d] \/ LinesOf(log[d]) \subseteq LinesOf(sealedLog[d])
  BY <1>1, <1>5 DEF UnlinkOrphanLog, MergeCovers
<1>6. LinesOf(<<>>) = {} /\ LinesOf(sealedLog[d] \o log[d])
                              = LinesOf(sealedLog[d]) \cup LinesOf(log[d])
  BY <1>1, LinesOfSeq
<1>7. ASSUME NEW e \in Dates, SnapshotSealer(e) \/ BuildManifestRows(e) \/ WriteManifest(e)
                              \/ FlipSealed(e) \/ ClearSealError(e)
      PROVE  SameLogs
  BY <1>7 DEF SnapshotSealer, BuildManifestRows, WriteManifest, FlipSealed, ClearSealError,
              archiveVars, SameLogs
<1>8. ASSUME SealCompletedDays \/ NothingToMerge
      PROVE  SameLogs
  BY <1>8 DEF SealCompletedDays, NothingToMerge, archiveVars, SameLogs
<1>9. ASSUME NEW e \in Dates, MovesLog(e)
      PROVE  LinesOf(log[d]) \cup LinesOf(sealedLog[d])
               \subseteq LinesOf(log'[d]) \cup LinesOf(sealedLog'[d])
  BY <1>2, <1>3, <1>4, <1>5, <1>6, <1>9 DEF MovesLog
<1> QED
  BY <1>2, <1>7, <1>8, <1>9, SealersStep DEF Seals, SealerMovesLog

LEMMA HostKeepsLines ==
    ASSUME ~LateMerge, TypeOK, KeptInv, NEW i \in Invs, HostSteps(i)
    PROVE  KeptInv'
<1>1. /\ log \in [Dates -> Seq(Lines)] /\ sealedLog' = sealedLog /\ sealer' = sealer
      /\ resealed' = resealed
  BY HostLogsMove, HostTables DEF TypeOK, SealTypeOK
<1>2. CASE log' = log /\ written' = written
  BY <1>1, <1>2 DEF KeptInv, MergeCovers, LinesKept, InTheLog, At
<1>3. ASSUME NEW h \in {"action", "success", "error"}, AppendLine(i, h)
      PROVE  KeptInv'
  <2> DEFINE l == [id |-> i, half |-> h]
  <2>1. l \in Lines /\ DayOf[i] \in Dates /\ l.id = i
    BY MsgTyped DEF Lines
  <2>2. /\ ~Merging(DayOf[i]) /\ written' = written \cup {l}
        /\ log' = [log EXCEPT ![DayOf[i]] = Append(@, l)]
    BY <1>3 DEF AppendLine
  <2> HIDE DEF l
  <2>3. \A d \in Dates : LinesOf(log'[d]) = IF d = DayOf[i] THEN LinesOf(log[d]) \cup {l}
                                            ELSE LinesOf(log[d])
    BY <1>1, <2>1, <2>2, LinesOfSeq
  <2>4. MergeCovers'
    <3>1. ASSUME NEW d \in Dates, At("unlink", d)' PROVE At("unlink", d) /\ d # DayOf[i]
      BY <1>1, <2>2, <3>1 DEF At, Merging
    <3> QED
      BY <1>1, <2>3, <3>1 DEF KeptInv, MergeCovers
  <2>5. LinesKept'
    <3>1. ASSUME NEW k \in written PROVE DayOf[k.id] \in Dates
      BY MsgTyped DEF TypeOK, Lines
    <3> QED
      BY ZenonT(40), <1>1, <2>1, <2>2, <2>3, <3>1 DEF KeptInv, LinesKept, InTheLog
  <2> QED
    BY <2>4, <2>5 DEF KeptInv
<1> QED
  BY <1>2, <1>3, HostLogsMove

LEMMA NextKept ==
    ~LateMerge /\ TypeOK /\ CalmInv /\ KeptInv /\ [Next]_vars => KeptInv'
<1> SUFFICES ASSUME ~LateMerge, TypeOK, CalmInv, KeptInv, [Next]_vars PROVE KeptInv'
  OBVIOUS
<1>1. CASE SameLogs /\ written' = written /\ sealer' = sealer /\ resealed' = resealed
  BY <1>1 DEF KeptInv, MergeCovers, LinesKept, InTheLog, SameLogs, At
<1>2. CASE Seals
  <2>1. MergeCovers'
    <3>1. ASSUME NEW d \in Dates, At("unlink", d)'
          PROVE  LinesOf(log'[d]) \subseteq LinesOf(sealedLog'[d])
      <4>1. log[d] \in Seq(Lines) /\ sealedLog[d] \in Seq(Lines)
        BY DEF TypeOK, SealTypeOK
      <4> QED
        BY ZenonT(40), <1>2, <3>1, <4>1, OnlyMergeUnlinks, LinesOfSeq
    <3> QED
      BY <3>1 DEF MergeCovers
  <2>2. \A d \in Dates : d \notin resealed =>
           LinesOf(log[d]) \cup LinesOf(sealedLog[d])
              \subseteq LinesOf(log'[d]) \cup LinesOf(sealedLog'[d])
    BY <1>2, SealsKeepLines DEF KeptInv
  <2>3. ASSUME NEW k \in written PROVE DayOf[k.id] \in Dates
    BY MsgTyped DEF TypeOK, Lines
  <2>4. written' = written /\ resealed \subseteq resealed'
    BY <1>2, SealersStep DEF Seals, SameHosts, SealerMovesLog
  <2>5. LinesKept'
    BY <2>2, <2>3, <2>4 DEF KeptInv, LinesKept, InTheLog
  <2> QED
    BY <2>1, <2>5 DEF KeptInv
<1>3. CASE SealFails
  <2>1. SameLogs /\ written' = written /\ resealed' = resealed
    BY <1>3 DEF SealFails, SameHosts
  <2>2. sealer'.pc # "unlink"
    BY <1>3, SealerGivesUp
  <2> QED
    BY <2>1, <2>2 DEF KeptInv, MergeCovers, LinesKept, InTheLog, SameLogs, At
<1>4. ASSUME NEW i \in Invs, HostSteps(i) \/ HostFails(i) PROVE KeptInv'
  BY <1>1, <1>4, HostKeepsLines DEF HostFails, SameArchive
<1> QED
  BY <1>1, <1>2, <1>3, <1>4, KindsOfSteps
  DEF ManifestGoes, DayEnds, Rebuilds, Idles, SameArchive, SameHosts

LEMMA InitKept == Init => KeptInv
BY DEF Init, SealInit, KeptInv, MergeCovers, LinesKept, At, IdleSealer

(***************************************************************************)
(* Every line that a host appended is still in the log of its day, here or *)
(* in the archive, whatever the sealers, the orphan merge and the user did *)
(* to the files, but for the days that a sealer took up a second time      *)
(* while lines of theirs were in LOG_DIR or could still come: for those    *)
(* the move does replace the sealed log.  Assumed is that no invocation    *)
(* appends to a log between its merge and its removal.                     *)
(***************************************************************************)
THEOREM NoLineLost ==
    ASSUME ~LateMerge
    PROVE  Spec => []LinesKept
<1>1. KeptInv => LinesKept
  BY DEF KeptInv
<1>2. TypeOK /\ CalmInv /\ KeptInv /\ [Next]_vars => KeptInv'
  BY NextKept
<1> QED
  BY <1>1, <1>2, InitType, NextType, InitCalm, NextCalm, InitKept, PTL DEF Spec

(***************************************************************************)
(* Nothing is forgotten.  An event that a host logged and committed, and   *)
(* that is not in the database, was dropped.  Until a rebuild that skips   *)
(* nothing and that no log has outrun has ended, its action line is still  *)
(* to be listed or read, or waits for its result.                          *)
(***************************************************************************)
Missing(i) ==
    /\ i \in stored /\ Msg[i].kind \in Tags
    /\ LineOf(i, "action") \in written
    /\ DayOf[i] \notin resealed
    /\ Ev(i) \notin db.events

Listed(i, files) ==
    \E s \in Sources : /\ <<DayOf[i], s>> \in files
                       /\ LineOf(i, "action") \in LinesOf(Content(<<DayOf[i], s>>))

AheadOf(i, r) ==
    \/ r.pc \in Dropping \cup {"collect"}
    \/ /\ r.pc = "collect_log"
       /\ LineOf(i, "action") \in LinesOf(log[DayOf[i]]) \/ Listed(i, r.files)
    \/ /\ r.pc = "replay"
       /\ \/ i \in r.pending
          \/ LineOf(i, "action") \in LinesOf(r.lines)
          \/ Listed(i, r.files)

Telling(r) == r.log /\ ~r.moved /\ ~r.skipped

ForgetInv ==
    /\ reb.pc = "idle" => ~reb.log
    /\ reb.pc \in Dropping \ {"drop"} => lossy
    /\ \A i \in Invs : Missing(i) => lossy /\ (Telling(reb) => AheadOf(i, reb))

LEMMA ResealedGrows == ASSUME [Next]_vars PROVE resealed \subseteq resealed'
<1>1. Seals => resealed \subseteq resealed'
  BY SealersStep DEF Seals, SealerMovesLog
<1> QED
  BY <1>1, KindsOfSteps, HostTables
  DEF HostFails, ManifestGoes, DayEnds, Rebuilds, SealFails, Idles

LEMMA MissingOnlyDropped ==
    ASSUME TypeOK, HostsInv, [Next]_vars, db.events \subseteq db'.events,
           NEW i \in Invs, Missing(i)'
    PROVE  Missing(i)
<1>1. db \in Db /\ DayOf[i] \notin resealed
  BY ResealedGrows DEF TypeOK, SealTypeOK, Missing
<1>2. CASE stored' = stored /\ written' = written
  BY <1>1, <1>2 DEF Missing
<1>3. ASSUME NEW j \in Invs, HostStores(j) PROVE Missing(i)
  <2>1. /\ db'.events = db.events \cup EvSet(j) /\ stored' = stored \cup {j}
        /\ written' = written
    BY <1>1, <1>3, HostWriteEffect DEF HostStores
  <2> QED
    BY <1>1, <2>1 DEF Missing, EvSet
<1>4. ASSUME NEW j \in Invs, HostLogs(j) PROVE Missing(i)
  <2>1. /\ db' = db /\ stored' = stored /\ written' = written \cup {LineOf(j, "action")}
        /\ host[j] = "new"
    BY <1>4 DEF HostLogs, AppendLine, LineOf
  <2>2. j \notin stored
    BY <2>1 DEF HostsInv, HostTrue
  <2> QED
    BY <1>1, <2>1, <2>2, LinesDiffer DEF Missing
<1>5. ASSUME NEW j \in Invs, HostResult(j) PROVE Missing(i)
  <2>1. PICK h \in {"success", "error"} : AppendLine(j, h)
    BY <1>5 DEF HostResult
  <2>2. db' = db /\ stored' = stored /\ written' = written \cup {LineOf(j, h)}
    BY <1>5, <2>1 DEF HostResult, AppendLine, LineOf
  <2>3. LineOf(j, h) # LineOf(i, "action")
    BY LinesDiffer
  <2> QED
    BY <1>1, <2>2, <2>3 DEF Missing
<1>6. ASSUME NEW j \in Invs, HostArchives(j) PROVE Missing(i)
  BY <1>2, <1>6, ArchiveMoves
<1> QED
  BY <1>2, <1>3, <1>4, <1>5, <1>6, KindsOfSteps
  DEF HostSteps, HostFails, ManifestGoes, DayEnds, Rebuilds, Seals, SealFails, Idles, SameHosts

LEMMA ReplayAhead ==
    ASSUME TypeOK, HostsInv, LogsInv, ReplayOneLine, NEW i \in Invs, Missing(i), Missing(i)',
           Telling(reb'), Telling(reb) => AheadOf(i, reb)
    PROVE  AheadOf(i, reb)'
<1> DEFINE l == Head(reb.lines)
           p == IF l.half = "action" THEN reb.pending \cup {l.id} ELSE reb.pending \ {l.id}
<1>1. /\ reb \in RebStates /\ reb.lines \in Seq(Lines) /\ reb.lines # <<>> /\ l \in Lines
      /\ reb.pc = "replay" /\ l = reb.lines[1] /\ 1 \in 1..Len(reb.lines)
  BY DEF TypeOK, RebStates, ReplayOneLine
<1>2. reb' = [reb EXCEPT !.lines = Tail(reb.lines), !.pending = p,
                         !.skipped = reb.skipped \/ Skips(l)]
  BY DEF ReplayOneLine
<1>3. /\ reb'.pc = "replay" /\ reb'.lines = Tail(reb.lines) /\ reb'.pending = p
      /\ reb'.files = reb.files /\ reb'.log = reb.log /\ reb'.moved = reb.moved
      /\ reb'.skipped = (reb.skipped \/ Skips(l))
  <2> HIDE DEF p, l
  <2> QED
    BY <1>1, <1>2 DEF RebStates
<1>4. log' = log /\ sealedLog' = sealedLog
  BY DEF ReplayOneLine
<1>5. Telling(reb) /\ ~Skips(l)
  BY <1>3 DEF Telling
<1>6. CASE i \in reb.pending
  <2>1. CASE l.id # i
    BY <1>3, <1>6, <2>1 DEF AheadOf
  <2>2. CASE l.id = i /\ l.half = "action"
    BY <1>3, <2>2 DEF AheadOf
  <2>3. CASE l.id = i /\ l.half = "success"
    <3>1. Applies(l)
      BY <1>6, <2>3 DEF Applies
    <3>2. db'.events = db.events \cup EvSet(i)
      BY <2>3, <3>1, ApplyActionEffect DEF ReplayOneLine, TypeOK, SealTypeOK
    <3>3. Ev(i) \in db'.events
      BY <3>2 DEF EvSet, Missing
    <3> QED
      BY <3>3 DEF Missing
  <2>4. CASE l.id = i /\ l.half = "error"
    <3>1. LineOf(i, "error") \in written
      <4>1. l = LineOf(i, "error")
        BY <1>1, <2>4 DEF Lines, LineOf
      <4> QED
        BY <1>1, <4>1 DEF LogsInv
    <3>2. i \notin stored \/ LineOf(i, "action") \notin written
      BY <3>1 DEF HostsInv, HostTrue
    <3> QED
      BY <3>2 DEF Missing
  <2> QED
    BY <1>1, <2>1, <2>2, <2>3, <2>4 DEF Lines
<1>7. CASE LineOf(i, "action") \in LinesOf(reb.lines)
  <2>1. PICK k \in 1..Len(reb.lines) : reb.lines[k] = LineOf(i, "action")
    BY <1>7 DEF LinesOf
  <2>2. CASE k = 1
    <3>1. l.id = i /\ l.half = "action"
      BY <1>1, <2>1, <2>2 DEF LineOf
    <3> QED
      BY <1>3, <3>1 DEF AheadOf
  <2>3. CASE k # 1
    <3>1. k - 1 \in 1..Len(Tail(reb.lines)) /\ Tail(reb.lines)[k - 1] = reb.lines[k]
      BY <1>1, <2>3
    <3> QED
      BY <1>3, <2>1, <3>1 DEF AheadOf, LinesOf
  <2> QED
    BY <2>2, <2>3
<1>8. CASE Listed(i, reb.files)
  BY <1>3, <1>4, <1>8 DEF AheadOf, Listed, Content
<1> QED
  BY <1>1, <1>5, <1>6, <1>7, <1>8 DEF AheadOf, Dropping

LEMMA RebuildForget ==
    ASSUME TypeOK, HostsInv, LogsInv, KeptInv, ForgetInv, Rebuilds
    PROVE  ForgetInv'
<1>1. reb \in RebStates /\ [Next]_vars
  BY DEF TypeOK, RebStates, Rebuilds, Next
<1>2. log' = log /\ sealedLog' = sealedLog /\ written' = written /\ stored' = stored
  BY DEF Rebuilds, SameArchive, SameLogs, SameHosts
<1>3. ~IdleReb.log /\ IdleReb \in RebStates /\ IdleReb.pc = "idle"
  BY DEF IdleReb, RebStates, RebPcs
<1>4. ASSUME NEW r \in RebStates
      PROVE  /\ EnterLogPhase(r).pc = IF r.log THEN "collect" ELSE "rehydrate"
             /\ EnterRehydrate(r).pc \in {"rehydrate", "done"}
             /\ \A y \in {EnterLogPhase(r), EnterRehydrate(r)} :
                   y.log = r.log /\ y.moved = r.moved /\ y.skipped = r.skipped
  BY DEF EnterLogPhase, EnterRehydrate, RebStates
<1>5. ASSUME db' = db PROVE \A i \in Invs : Missing(i)' => Missing(i)
  BY <1>1, <1>5, MissingOnlyDropped
<1>6. ASSUME NEW o \in Options, RebuildBegins(o)
      PROVE  ForgetInv'
  <2> DEFINE x == [IdleReb EXCEPT !.log = o.log, !.rehydrate = o.rehydrate,
                                  !.quiet = o.truncate]
  <2>1. x \in RebStates /\ x.log = o.log
    BY <1>3, OptionsAssumption DEF RebStates
  <2>2. reb' = IF o.truncate THEN [x EXCEPT !.pc = "drop"] ELSE EnterLogPhase(x)
    BY <1>6 DEF RebuildBegins
  <2>3. [x EXCEPT !.pc = "drop"].pc = "drop" /\ [x EXCEPT !.pc = "drop"].log = o.log
    BY <2>1 DEF RebStates
  <2>4. reb'.pc \in {"drop", "collect", "rehydrate"}
        /\ (reb'.log => reb'.pc \in {"drop", "collect"})
    BY <1>4, <2>1, <2>2, <2>3
  <2>5. lossy' = lossy /\ db' = db
    BY <1>6 DEF RebuildBegins, historyVars, archiveVars
  <2> QED
    BY <1>5, <2>4, <2>5 DEF ForgetInv, Telling, AheadOf, Dropping
<1>7. CASE DropVisits
  <2>1. /\ lossy' = TRUE /\ reb'.pc = "drop_read" /\ reb'.log = reb.log
    BY <1>1, <1>7 DEF DropVisits, RebStates
  <2> QED
    BY <2>1 DEF ForgetInv, AheadOf, Dropping
<1>14. ASSUME NEW t \in Tags, DropEvents(t)
       PROVE  ForgetInv'
  <2>1. /\ lossy' = lossy /\ reb.pc \in {"drop_read", "drop_skimmed"}
        /\ reb'.pc \in {"drop_skimmed", "drop_rows"} /\ reb'.log = reb.log
    BY <1>1, <1>14 DEF DropEvents, RebStates
  <2> QED
    BY <2>1 DEF ForgetInv, AheadOf, Dropping
<1>15. CASE DropSnapshots
  <2>1. /\ reb' = EnterLogPhase(reb) /\ lossy' = lossy /\ db' = db
    BY <1>15 DEF DropSnapshots, historyVars
  <2> QED
    BY <1>1, <1>4, <1>5, <2>1 DEF ForgetInv, AheadOf, Telling, Dropping
<1>8. CASE ListArchive
  <2>1. /\ lossy' = lossy /\ db' = db /\ reb'.pc = "collect_log" /\ reb'.log = reb.log
        /\ reb'.files = {d \in Dates : sealedLog[d] # <<>>} \X {"icloud"}
        /\ reb.pc = "collect" /\ reb'.moved = reb.moved /\ reb'.skipped = reb.skipped
    BY <1>1, <1>8 DEF ListArchive, historyVars, archiveVars, RebStates
  <2>2. ASSUME NEW i \in Invs, Missing(i)' PROVE AheadOf(i, reb)'
    <3>1. DayOf[i] \in Dates /\ LineOf(i, "action").id = i
      BY MsgTyped DEF LineOf
    <3>2. LineOf(i, "action") \in LinesOf(log[DayOf[i]]) \cup LinesOf(sealedLog[DayOf[i]])
      BY <1>5, <2>1, <2>2, <3>1 DEF Missing, KeptInv, LinesKept, InTheLog
    <3>3. LinesOf(<<>>) = {}
      BY DEF LinesOf
    <3>4. CASE LineOf(i, "action") \in LinesOf(sealedLog[DayOf[i]])
      <4>1. <<DayOf[i], "icloud">> \in reb'.files
        BY <2>1, <3>1, <3>3, <3>4
      <4> QED
        BY <1>2, <2>1, <3>4, <4>1 DEF AheadOf, Listed, Content, Sources
    <3> QED
      BY <1>2, <2>1, <3>2, <3>4 DEF AheadOf
  <2> QED
    BY <1>5, <2>1, <2>2 DEF ForgetInv, Dropping
<1>16. CASE ListLogDir
  <2>1. /\ lossy' = lossy /\ db' = db /\ reb'.pc = "replay" /\ reb'.log = reb.log
        /\ reb'.files = reb.files \cup ({d \in Dates : log[d] # <<>>} \X {"log_dir"})
        /\ reb.pc = "collect_log" /\ reb'.moved = reb.moved /\ reb'.skipped = reb.skipped
    BY <1>1, <1>16 DEF ListLogDir, historyVars, archiveVars, RebStates
  <2>2. ASSUME NEW i \in Invs, AheadOf(i, reb) PROVE AheadOf(i, reb)'
    <3>1. DayOf[i] \in Dates
      BY MsgTyped
    <3>2. LinesOf(<<>>) = {}
      BY DEF LinesOf
    <3>3. CASE LineOf(i, "action") \in LinesOf(log[DayOf[i]])
      <4>1. <<DayOf[i], "log_dir">> \in reb'.files
        BY <2>1, <3>1, <3>2, <3>3
      <4> QED
        BY <1>2, <2>1, <3>3, <4>1 DEF AheadOf, Listed, Content, Sources
    <3>4. CASE Listed(i, reb.files)
      BY <1>2, <2>1, <3>4 DEF AheadOf, Listed, Content
    <3> QED
      BY <2>1, <2>2, <3>3, <3>4 DEF AheadOf, Dropping
  <2> QED
    BY <1>5, <2>1, <2>2 DEF ForgetInv, Dropping, Telling
<1>9. ASSUME NEW f \in Dates \X Sources, OpenFile(f)
      PROVE  ForgetInv'
  <2>1. lossy' = lossy /\ reb.pc = "replay" /\ reb.lines = <<>> /\ db' = db
    BY <1>9 DEF OpenFile
  <2>2. CASE Content(f) = <<>>
    <3>1. reb' = IdleReb
      BY <1>9, <2>2 DEF OpenFile
    <3> QED
      BY <1>3, <1>5, <2>1, <3>1 DEF ForgetInv, Telling, Dropping
  <2>3. CASE Content(f) # <<>>
    <3>1. reb' = [reb EXCEPT !.files = reb.files \ {f}, !.lines = Content(f)]
      BY <1>9, <2>3 DEF OpenFile
    <3>2. /\ reb'.pc = "replay" /\ reb'.log = reb.log /\ reb'.moved = reb.moved
          /\ reb'.skipped = reb.skipped /\ reb'.pending = reb.pending
          /\ reb'.files = reb.files \ {f} /\ reb'.lines = Content(f)
      BY <1>1, <2>1, <3>1 DEF RebStates
    <3>3. ASSUME NEW i \in Invs, AheadOf(i, reb) PROVE AheadOf(i, reb)'
      <4>1. CASE i \in reb.pending
        BY <3>2, <4>1 DEF AheadOf
      <4>2. LineOf(i, "action") \notin LinesOf(reb.lines)
        BY <2>1 DEF LinesOf
      <4>3. CASE Listed(i, reb.files)
        <5>1. PICK s \in Sources : /\ <<DayOf[i], s>> \in reb.files
                                   /\ LineOf(i, "action") \in LinesOf(Content(<<DayOf[i], s>>))
          BY <4>3 DEF Listed
        <5>2. CASE f = <<DayOf[i], s>>
          BY <3>2, <5>1, <5>2 DEF AheadOf
        <5>3. CASE f # <<DayOf[i], s>>
          <6>1. <<DayOf[i], s>> \in reb'.files
            BY <3>2, <5>1, <5>3
          <6> QED
            BY <1>2, <3>2, <5>1, <6>1 DEF AheadOf, Listed, Content
        <5> QED
          BY <5>2, <5>3
      <4> QED
        BY <2>1, <3>3, <4>1, <4>2, <4>3 DEF AheadOf, Dropping
    <3> QED
      BY <1>5, <2>1, <3>2, <3>3 DEF ForgetInv, Telling, Dropping
  <2> QED
    BY <2>2, <2>3
<1>10. CASE ReplayOneLine
  <2> DEFINE l == Head(reb.lines)
  <2>1. /\ lossy' = lossy /\ reb'.pc = "replay"
    BY <1>1, <1>10 DEF ReplayOneLine, historyVars, RebStates
  <2>2. l \in Lines
    BY <1>10 DEF ReplayOneLine, TypeOK
  <2>3. l.id \in Invs
    BY <2>2 DEF Lines
  <2>4. db.events \subseteq db'.events
    BY <1>10, <2>3, ApplyActionEffect DEF ReplayOneLine, TypeOK, SealTypeOK
  <2>5. \A i \in Invs : Missing(i)' => Missing(i)
    BY <1>1, <2>4, MissingOnlyDropped
  <2> QED
    BY <1>10, <2>1, <2>5, ReplayAhead DEF ForgetInv, Dropping
<1>11. CASE EndReplay
  <2> DEFINE x == [reb EXCEPT !.skipped = reb.skipped \/ reb.pending # {}, !.pending = {}]
  <2>1. /\ x \in RebStates /\ x.log = reb.log /\ x.moved = reb.moved
        /\ x.skipped = (reb.skipped \/ reb.pending # {})
    BY <1>1 DEF RebStates
  <2>2. /\ reb' = EnterRehydrate(x) /\ lossy' = lossy /\ db' = db
        /\ reb.pc = "replay" /\ reb.lines = <<>> /\ reb.files = {}
    BY <1>11 DEF EndReplay, historyVars, archiveVars
  <2> HIDE DEF x
  <2>3. /\ reb'.pc \in {"rehydrate", "done"} /\ reb'.log = reb.log /\ reb'.moved = reb.moved
        /\ reb'.skipped = (reb.skipped \/ reb.pending # {})
    BY <1>4, <2>1, <2>2
  <2>4. ASSUME NEW i \in Invs, AheadOf(i, reb) PROVE reb.pending # {}
    BY <2>2, <2>4 DEF AheadOf, Listed, LinesOf, Dropping
  <2> QED
    BY <1>5, <2>2, <2>3, <2>4 DEF ForgetInv, Telling, Dropping
<1>12. CASE RehydrateFilesystem
  <2>1. /\ reb'.pc = "done" /\ reb'.log = reb.log /\ reb'.moved = reb.moved
        /\ reb'.skipped = reb.skipped /\ lossy' = lossy /\ db' = db
        /\ reb.pc = "rehydrate"
    BY <1>1, <1>12 DEF RehydrateFilesystem, RebStates
  <2> QED
    BY <1>5, <2>1 DEF ForgetInv, Telling, AheadOf, Dropping
<1>13. CASE RebuildEnds
  <2>1. /\ reb' = IdleReb /\ lossy' = (lossy /\ ~(reb.log /\ ~reb.skipped /\ ~reb.moved))
        /\ reb.pc = "done" /\ db' = db
    BY <1>13 DEF RebuildEnds, archiveVars
  <2>2. ASSUME NEW i \in Invs, Missing(i)' PROVE lossy'
    BY <1>5, <2>1, <2>2 DEF ForgetInv, Telling, AheadOf, Dropping
  <2> QED
    BY <1>3, <2>1, <2>2 DEF ForgetInv, Telling, Dropping
<1> QED
  BY <1>6, <1>7, <1>8, <1>9, <1>10, <1>11, <1>12, <1>13, <1>14, <1>15, <1>16
  DEF Rebuilds, RebuildSteps, TruncateRebuildableTables

(* A sealer takes no line away from the rebuilder unnoticed.               *)
LEMMA SealsAhead ==
    ASSUME TypeOK, CalmInv, Seals, reb.pc # "idle", ~reb'.moved,
           NEW d \in Dates, d \notin resealed
    PROVE  /\ LinesOf(sealedLog[d]) \subseteq LinesOf(sealedLog'[d])
           /\ reb.pc = "collect_log" \/ (reb.pc = "replay" /\ <<d, "log_dir">> \in reb.files)
              => log'[d] = log[d]
<1>1. /\ log[d] \in Seq(Lines) /\ sealedLog[d] \in Seq(Lines)
      /\ log \in [Dates -> Seq(Lines)] /\ sealedLog \in [Dates -> Seq(Lines)]
      /\ reb \in RebStates
  BY DEF TypeOK, SealTypeOK, RebStates
<1>2. CASE SameLogs
  BY <1>2 DEF SameLogs
<1>3. ASSUME NEW e \in Dates, SealerMovesLog(e)
      PROVE  /\ LinesOf(sealedLog[d]) \subseteq LinesOf(sealedLog'[d])
             /\ reb.pc = "collect_log" \/ (reb.pc = "replay" /\ <<d, "log_dir">> \in reb.files)
                => log'[d] = log[d]
  <2>1. ~Outruns(e)
    BY <1>1, <1>3 DEF SealerMovesLog, RebStates
  <2>2. log'[d] = log[d] \/ (d = e /\ log[d] # <<>> /\ log'[d] = <<>>)
    BY <1>1, <1>3 DEF SealerMovesLog, MovesLog, MoveLogIntoSealedDir, MergeOrphanLog,
                      UnlinkOrphanLog
  <2>3. \/ sealedLog'[d] = sealedLog[d] \/ sealedLog[d] = <<>>
        \/ sealedLog'[d] = sealedLog[d] \o log[d]
    <3>1. CASE MoveLogIntoSealedDir(e) /\ e = d
      <4>1. Waits(d)
        BY <3>1 DEF MoveLogIntoSealedDir, At, IsFirst, Waits
      <4>2. sealedLog[d] # <<>> => log[d] = <<>>
        BY <4>1 DEF CalmInv, Calm
      <4> QED
        BY <3>1, <4>2 DEF MoveLogIntoSealedDir
    <3>2. CASE MoveLogIntoSealedDir(e) /\ e # d
      BY <1>1, <3>2 DEF MoveLogIntoSealedDir
    <3>3. CASE MergeOrphanLog(e) \/ UnlinkOrphanLog(e)
      BY <1>1, <3>3 DEF MergeOrphanLog, UnlinkOrphanLog
    <3> QED
      BY <1>3, <3>1, <3>2, <3>3 DEF SealerMovesLog, MovesLog
  <2>4. /\ LinesOf(<<>>) = {}
        /\ LinesOf(sealedLog[d] \o log[d]) = LinesOf(sealedLog[d]) \cup LinesOf(log[d])
    BY <1>1, LinesOfSeq
  <2> QED
    BY <2>1, <2>2, <2>3, <2>4 DEF Outruns
<1>4. ASSUME NEW e \in Dates, SnapshotSealer(e) \/ BuildManifestRows(e) \/ WriteManifest(e)
                              \/ FlipSealed(e) \/ ClearSealError(e)
      PROVE  SameLogs
  BY <1>4 DEF SnapshotSealer, BuildManifestRows, WriteManifest, FlipSealed, ClearSealError,
              archiveVars, SameLogs
<1>5. ASSUME SealCompletedDays \/ NothingToMerge
      PROVE  SameLogs
  BY <1>5 DEF SealCompletedDays, NothingToMerge, archiveVars, SameLogs
<1> QED
  BY <1>2, <1>3, <1>4, <1>5, SealersStep DEF Seals

LEMMA NextForget ==
    TypeOK /\ HostsInv /\ LogsInv /\ CalmInv /\ KeptInv /\ ForgetInv /\ [Next]_vars => ForgetInv'
<1> SUFFICES ASSUME TypeOK, HostsInv, LogsInv, CalmInv, KeptInv, ForgetInv, [Next]_vars
             PROVE  ForgetInv'
  OBVIOUS
<1>1. reb \in RebStates
  BY DEF TypeOK, RebStates
<1>2. ASSUME db.events \subseteq db'.events, lossy' = lossy,
             reb'.pc = "idle" => ~reb'.log,
             reb'.pc \in {reb.pc, "idle"},
             ASSUME Telling(reb)'
             PROVE  /\ Telling(reb)
                    /\ \A i \in Invs : Missing(i) /\ AheadOf(i, reb) => AheadOf(i, reb)'
      PROVE  ForgetInv'
  <2>1. \A i \in Invs : Missing(i)' => Missing(i)
    BY <1>2, MissingOnlyDropped
  <2> QED
    BY <1>2, <2>1 DEF ForgetInv, Dropping
<1>3. ASSUME SameLogs, reb' = reb, lossy' = lossy, db' = db PROVE ForgetInv'
  <2>1. \A i \in Invs : AheadOf(i, reb) => AheadOf(i, reb)'
    BY <1>3 DEF AheadOf, Listed, Content, SameLogs
  <2> QED
    BY <1>2, <1>3, <2>1 DEF ForgetInv, Telling
<1>6. ASSUME NEW i \in Invs, HostSteps(i) PROVE ForgetInv'
  <2>1. Disturb /\ lossy' = lossy /\ sealedLog' = sealedLog
    BY <1>6, ArchiveMoves, HostTables, HostLogsMove
    DEF HostSteps, HostLogs, HostStores, HostResult, AppendLine
  <2>2. db.events \subseteq db'.events
    <3>1. CASE HostStores(i)
      <4>1. db' = HostWrite(db, Msg[i]) /\ db \in Db
        BY <3>1 DEF HostStores, TypeOK, SealTypeOK
      <4> QED
        BY <4>1, HostWriteEffect
    <3>2. CASE db' = db
      BY <3>2
    <3> QED
      BY <1>6, <3>1, <3>2, HostTables
  <2>3. /\ reb'.pc = reb.pc /\ reb'.log = reb.log /\ reb'.moved = reb.moved
        /\ reb'.skipped = reb.skipped /\ reb'.pending = reb.pending
        /\ reb'.files = reb.files /\ reb'.lines = reb.lines
    BY <1>1, <2>1 DEF Disturb, RebStates
  <2>4. ASSUME NEW d \in Dates PROVE LinesOf(log[d]) \subseteq LinesOf(log'[d])
    <3>1. log \in [Dates -> Seq(Lines)] /\ log[d] \in Seq(Lines)
      BY DEF TypeOK, SealTypeOK
    <3>2. \A h \in {"action", "success", "error"} : [id |-> i, half |-> h] \in Lines
      BY DEF Lines
    <3>3. \A h \in {"action", "success", "error"} :
             LinesOf(Append(log[d], [id |-> i, half |-> h]))
                = LinesOf(log[d]) \cup {[id |-> i, half |-> h]}
      BY <3>1, <3>2, LinesOfSeq
    <3>4. ASSUME NEW h \in {"action", "success", "error"}, AppendLine(i, h)
          PROVE  log'[d] \in {log[d], Append(log[d], [id |-> i, half |-> h])}
      BY <3>1, <3>4 DEF AppendLine
    <3> QED
      BY <1>6, <3>3, <3>4, HostLogsMove
  <2>5. ASSUME NEW j \in Invs, AheadOf(j, reb) PROVE AheadOf(j, reb)'
    <3>1. DayOf[j] \in Dates
      BY MsgTyped
    <3>2. \A s \in Sources : LinesOf(Content(<<DayOf[j], s>>))
                               \subseteq LinesOf(Content(<<DayOf[j], s>>))'
      BY <2>1, <2>4, <3>1 DEF Content
    <3>3. Listed(j, reb.files) => Listed(j, reb.files)'
      BY <2>3, <3>2 DEF Listed
    <3> QED
      BY <2>3, <2>4, <2>5, <3>1, <3>3 DEF AheadOf
  <2> QED
    BY <1>2, <2>1, <2>2, <2>3, <2>5 DEF ForgetInv, Telling
<1>7. CASE Seals
  <2>1. /\ lossy' = lossy /\ db' = db
    BY <1>7 DEF Seals, SameTables
  <2>2. /\ reb'.pc = reb.pc /\ reb'.log = reb.log /\ reb'.skipped = reb.skipped
        /\ reb'.pending = reb.pending /\ reb'.files = reb.files /\ reb'.lines = reb.lines
        /\ reb.moved => reb'.moved
    BY <1>7, SealersReb DEF Seals
  <2>3. ASSUME Telling(reb)' PROVE Telling(reb)
    BY <2>2, <2>3 DEF Telling
  <2>4. ASSUME Telling(reb)', NEW i \in Invs, Missing(i), AheadOf(i, reb)
        PROVE  AheadOf(i, reb)'
    <3> DEFINE d == DayOf[i]
    <3>1. d \in Dates /\ d \notin resealed
      BY <2>4, MsgTyped DEF Missing
    <3>2. ~reb'.moved /\ reb.pc # "idle"
      BY <2>2, <2>4 DEF Telling, ForgetInv
    <3>3. /\ LinesOf(sealedLog[d]) \subseteq LinesOf(sealedLog'[d])
          /\ reb.pc = "collect_log" \/ (reb.pc = "replay" /\ <<d, "log_dir">> \in reb.files)
             => log'[d] = log[d]
      BY <1>7, <3>1, <3>2, SealsAhead
    <3>4. ASSUME reb.pc \in {"collect_log", "replay"}, Listed(i, reb.files)
          PROVE  Listed(i, reb.files)'
      BY <2>2, <3>3, <3>4 DEF Listed, Content, Sources
    <3> QED
      BY <2>2, <2>4, <3>3, <3>4 DEF AheadOf
  <2> QED
    BY <1>2, <2>1, <2>2, <2>3, <2>4 DEF ForgetInv
<1>8. CASE Rebuilds
  BY <1>8, RebuildForget
<1>9. ASSUME SameLogs, lossy' = lossy, reb' = reb \/ reb' = IdleReb, db' = db
      PROVE  ForgetInv'
  <2>1. ~IdleReb.log /\ IdleReb.pc = "idle"
    BY DEF IdleReb
  <2> QED
    BY <1>2, <1>3, <1>9, <2>1 DEF Telling
<1> QED
  BY <1>6, <1>7, <1>8, <1>9, KindsOfSteps
  DEF HostFails, ManifestGoes, DayEnds, SealFails, Idles, SameArchive, SameTables

LEMMA InitForget == Init => ForgetInv
BY DEF Init, ForgetInv, Missing, IdleReb, Dropping

(***************************************************************************)
(* Once a rebuild that replays the logs has ended with exit code 0, every  *)
(* event that a host had logged and committed is in the database again,    *)
(* also if it was committed, or its line written, while the rebuild ran:   *)
(* but not if a sealer took a log to the archive when the archive had been *)
(* listed and that log was still to be listed or opened, and not of a day  *)
(* that was sealed again as in NoLineLost.                                 *)
(***************************************************************************)
THEOREM NothingIsForgotten ==
    ASSUME ~LateMerge
    PROVE  Spec => []NothingForgotten
<1>1. TypeOK /\ ForgetInv => NothingForgotten
  BY DEF TypeOK, ForgetInv, Missing, NothingForgotten, Committed, LineOf
<1>2. TypeOK /\ CalmInv /\ KeptInv /\ [Next]_vars => KeptInv'
  BY NextKept
<1> QED
  BY <1>1, <1>2, InitType, NextType, InitHosts, NextHosts, InitLogs, NextLogs, InitCalm,
     NextCalm, InitKept, InitForget, NextForget, PTL
  DEF Spec

(***************************************************************************)
(* The directory column.  No two invocations share an event: it has the    *)
(* millisecond of the click in it, and the primary key of the event tables *)
(* counts on that.                                                         *)
(***************************************************************************)
DistinctEvents ==
    \A i, j \in Invs : Msg[i].kind \in Tags /\ Ev(i) = Ev(j) => i = j

(* An event row has a directory; the one of a file that is in the archive  *)
(* is not Downloads, unless its host has not come to the UPDATE, or a      *)
(* rebuild has still to walk the archive.                                  *)
HasCopied == {"moved", "over"} \cup Archiving

PlaceInv ==
    /\ \A i \in Invs : Ev(i) \in db.events => place[i] # "none"
    /\ \A i \in Invs : ~stale /\ i \in dir[DayOf[i]] => place[i] # "downloads" \/ i \in copied
    /\ \A i \in Invs, d \in Dates : i \in dir[d] => host[i] \in HasCopied
    /\ reb.lines # <<>> => stale /\ reb.pc = "replay"

LEMMA InitPlace == Init => PlaceInv
BY DisjointAssumption DEF Init, SealInit, PlaceInv, IdleReb, EmptyDb

LEMMA RebuildPlace ==
    ASSUME DistinctEvents, TypeOK, PlaceInv, RebuildSteps
    PROVE  PlaceInv'
<1>1. /\ reb \in RebStates /\ place \in [Invs -> {"none", "downloads", "archive"}]
      /\ db \in Db /\ DayOf \in [Files -> Dates] /\ Invs \subseteq Files
  BY DayOfAssumption DEF TypeOK, SealTypeOK, RebStates, Files
<1>2. host' = host /\ dir' = dir
  BY RebuildFrame DEF SameHosts, SameArchive
<1>3. \A i \in Invs, d \in Dates : i \in dir'[d] => host'[i] \in HasCopied
  BY <1>2 DEF PlaceInv
<1>4. IdleReb.lines = <<>>
  BY DEF IdleReb
<1>5. ASSUME NEW r \in RebStates
      PROVE  EnterLogPhase(r).lines = r.lines /\ EnterRehydrate(r).lines = r.lines
  BY DEF EnterLogPhase, EnterRehydrate, RebStates
<1>6. ASSUME NEW o \in Options, RebuildBegins(o) PROVE PlaceInv'
  <2>1. db' = db /\ place' = place /\ stale' = stale /\ copied' = copied
    BY <1>6 DEF RebuildBegins, archiveVars, historyVars
  <2>2. reb'.lines = <<>>
    <3> DEFINE x == [IdleReb EXCEPT !.log = o.log, !.rehydrate = o.rehydrate,
                                    !.quiet = o.truncate]
    <3>1. x \in RebStates /\ x.lines = <<>>
      <4>1. IdleReb \in RebStates
        BY DEF RebStates, IdleReb, RebPcs
      <4> QED
        BY <1>4, <4>1, OptionsAssumption DEF RebStates
    <3>2. [x EXCEPT !.pc = "drop"].lines = <<>>
      BY <3>1 DEF RebStates
    <3>3. EnterLogPhase(x).lines = <<>>
      BY <1>5, <3>1
    <3> HIDE DEF x
    <3>4. reb' = IF o.truncate THEN [x EXCEPT !.pc = "drop"] ELSE EnterLogPhase(x)
      BY <1>6 DEF RebuildBegins, x
    <3> QED
      BY <3>2, <3>3, <3>4
  <2> QED
    BY <1>2, <1>3, <2>1, <2>2 DEF PlaceInv
<1>7. CASE DropVisits
  <2>1. db'.events = db.events /\ place' = place /\ stale' /\ reb'.lines = <<>>
    BY <1>1, <1>7 DEF DropVisits, EmptyDb, PlaceInv, RebStates
  <2> QED
    BY <1>3, <2>1 DEF PlaceInv
<1>14. ASSUME NEW t \in Tags, DropEvents(t) PROVE PlaceInv'
  <2>1. /\ db'.events = {e \in db.events : e.tag # t} /\ stale' = stale /\ copied' = copied
        /\ place' = [i \in Invs |-> IF Msg[i].kind = t THEN "none" ELSE place[i]]
        /\ reb'.lines = <<>>
    BY <1>1, <1>14 DEF DropEvents, PlaceInv, Db, RebStates
  <2>2. \A i \in Invs : Ev(i).tag = Msg[i].kind
    BY DEF Ev
  <2>3. ASSUME NEW i \in Invs
        PROVE  /\ Ev(i) \in db'.events => place'[i] # "none"
               /\ place'[i] \in {"none", place[i]}
    BY <2>1, <2>2 DEF PlaceInv
  <2> QED
    BY <1>2, <1>3, <2>1, <2>3 DEF PlaceInv
<1>8. CASE DropSnapshots \/ ListArchive \/ ListLogDir
  <2>1. db' = db /\ place' = place /\ stale' = stale /\ copied' = copied /\ reb'.lines = <<>>
    BY <1>1, <1>5, <1>8
    DEF DropSnapshots, ListArchive, ListLogDir, archiveVars, historyVars, RebStates, PlaceInv
  <2> QED
    BY <1>2, <1>3, <2>1 DEF PlaceInv
<1>9. ASSUME NEW f \in Dates \X Sources, OpenFile(f) PROVE PlaceInv'
  <2>1. db' = db /\ place' = place /\ copied' = copied /\ reb.pc = "replay"
    BY <1>9 DEF OpenFile
  <2>2. CASE reb' = IdleReb /\ stale' = stale
    BY <1>2, <1>3, <1>4, <2>1, <2>2 DEF PlaceInv
  <2>3. CASE stale' /\ reb'.pc = reb.pc
    BY <1>3, <2>1, <2>3 DEF PlaceInv
  <2>4. ASSUME reb' = [reb EXCEPT !.files = reb.files \ {f}, !.lines = Content(f)]
        PROVE  reb'.pc = reb.pc
    BY <1>1, <2>4 DEF RebStates
  <2> QED
    BY <1>9, <2>2, <2>3, <2>4 DEF OpenFile
<1>10. CASE ReplayOneLine
  <2> DEFINE l == Head(reb.lines)
  <2>1. l \in Lines /\ l.id \in Invs
    <3>1. l \in Lines
      BY <1>10 DEF ReplayOneLine, TypeOK
    <3> QED
      BY <3>1 DEF Lines
  <2>2. stale /\ stale' = stale
    BY <1>10 DEF ReplayOneLine, PlaceInv, historyVars
  <2>3. reb'.pc = reb.pc /\ reb.pc = "replay"
    BY <1>1, <1>10 DEF ReplayOneLine, RebStates
  <2>4. ASSUME NEW i \in Invs, Ev(i) \in db'.events PROVE place'[i] # "none"
    <3>1. CASE Applies(l) /\ Msg[l.id].kind \in Tags /\ Ev(l.id) \notin db.events
      <4>1. place' = [place EXCEPT ![l.id] = "downloads"]
        BY <1>10, <3>1 DEF ReplayOneLine
      <4>2. db'.events = db.events \cup {Ev(l.id)}
        BY <1>1, <1>10, <2>1, <3>1, ApplyActionEffect DEF ReplayOneLine, EvSet
      <4>3. Ev(i) = Ev(l.id) => i = l.id
        BY <2>1, <3>1 DEF DistinctEvents
      <4> QED
        BY <1>1, <2>1, <2>4, <4>1, <4>2, <4>3 DEF PlaceInv
    <3>2. CASE ~(Applies(l) /\ Msg[l.id].kind \in Tags /\ Ev(l.id) \notin db.events)
      <4>1. place' = place
        BY <1>10, <3>2 DEF ReplayOneLine
      <4>2. CASE Applies(l)
        <5>1. db'.events = db.events \cup EvSet(l.id)
          BY <1>1, <1>10, <2>1, <4>2, ApplyActionEffect DEF ReplayOneLine
        <5>2. EvSet(l.id) \subseteq db.events
          BY <3>2, <4>2 DEF EvSet
        <5> QED
          BY <2>4, <4>1, <5>1, <5>2 DEF PlaceInv
      <4>3. CASE ~Applies(l)
        <5>1. db' = db
          BY <1>10, <4>3 DEF ReplayOneLine
        <5> QED
          BY <2>4, <4>1, <5>1 DEF PlaceInv
      <4> QED
        BY <4>2, <4>3
    <3> QED
      BY <3>1, <3>2
  <2> QED
    BY <1>3, <2>2, <2>3, <2>4 DEF PlaceInv
<1>11. CASE EndReplay
  <2>1. db' = db /\ place' = place /\ stale' = stale /\ copied' = copied
    BY <1>11 DEF EndReplay, archiveVars, historyVars
  <2>2. reb'.lines = <<>>
    <3> DEFINE x == [reb EXCEPT !.skipped = reb.skipped \/ reb.pending # {}, !.pending = {}]
    <3>1. x \in RebStates /\ x.lines = <<>>
      BY <1>1, <1>11 DEF EndReplay, RebStates
    <3>2. reb' = EnterRehydrate(x)
      BY <1>11 DEF EndReplay
    <3> HIDE DEF x
    <3> QED
      BY <1>5, <3>1, <3>2
  <2> QED
    BY <1>2, <1>3, <2>1, <2>2 DEF PlaceInv
<1>12. CASE RehydrateFilesystem
  <2>1. db' = db /\ reb.lines = <<>> /\ reb'.lines = <<>>
    BY <1>1, <1>12 DEF RehydrateFilesystem, RebStates, PlaceInv
  <2>2. ASSUME NEW i \in Invs
        PROVE  /\ place[i] # "none" => place'[i] # "none"
               /\ i \in dir[DayOf[i]] => place'[i] # "downloads"
    BY <1>12 DEF RehydrateFilesystem
  <2> QED
    BY <1>2, <1>3, <2>1, <2>2 DEF PlaceInv
<1>13. CASE RebuildEnds
  <2>1. db' = db /\ place' = place /\ stale' = stale /\ copied' = copied
    BY <1>13 DEF RebuildEnds, archiveVars
  <2>2. reb'.lines = <<>>
    BY <1>4, <1>13 DEF RebuildEnds
  <2> QED
    BY <1>2, <1>3, <2>1, <2>2 DEF PlaceInv
<1> QED
  BY <1>6, <1>7, <1>8, <1>9, <1>10, <1>11, <1>12, <1>13, <1>14
  DEF RebuildSteps, TruncateRebuildableTables

LEMMA NextPlace == DistinctEvents /\ TypeOK /\ PlaceInv /\ [Next]_vars => PlaceInv'
<1> SUFFICES ASSUME DistinctEvents, TypeOK, PlaceInv, [Next]_vars PROVE PlaceInv'
  OBVIOUS
<1>1. /\ reb \in RebStates /\ place \in [Invs -> {"none", "downloads", "archive"}]
      /\ db \in Db /\ DayOf \in [Files -> Dates] /\ Invs \subseteq Files
      /\ dir \in [Dates -> SUBSET Files]
      /\ host \in [Invs -> HostPcs]
  BY DayOfAssumption DEF TypeOK, SealTypeOK, RebStates, Files
<1>2. ASSUME NEW i \in Invs, HostSteps(i) PROVE PlaceInv'
  <2>1. reb'.lines = reb.lines /\ reb'.pc = reb.pc /\ stale' = stale
    <3>1. Disturb
      BY <1>2, ArchiveMoves DEF HostSteps, HostLogs, HostStores, HostResult, AppendLine
    <3> QED
      BY <1>1, <1>2, <3>1, HostTables DEF Disturb, RebStates
  <2>2. CASE HostLogs(i) \/ HostResult(i)
    <3>1. db' = db /\ place' = place /\ dir' = dir /\ copied' = copied
      BY <2>2 DEF HostLogs, HostResult
    <3>2. \/ host[i] = "new"
          \/ host' = [host EXCEPT ![i] = "over"]
      BY <2>2 DEF HostLogs, HostResult
    <3>3. ASSUME NEW j \in Invs PROVE j # i => host'[j] = host[j]
      BY <1>1, <2>2 DEF HostLogs, HostResult
    <3>4. ASSUME NEW j \in Invs, NEW d \in Dates, j \in dir[d]
          PROVE  host'[j] \in HasCopied
      BY <1>1, <3>2, <3>3, <3>4 DEF PlaceInv, HasCopied, Archiving
    <3> QED
      BY <2>1, <3>1, <3>4 DEF PlaceInv
  <2>3. CASE HostStores(i)
    <3>1. /\ db'.events = db.events \cup EvSet(i) /\ dir' = dir /\ copied' = copied
          /\ host[i] = "logged" /\ host' = [host EXCEPT ![i] = "stored"]
          /\ place' = IF Msg[i].kind \in Tags THEN [place EXCEPT ![i] = "downloads"] ELSE place
      BY <1>1, <2>3, HostWriteEffect DEF HostStores
    <3>2. \A d \in Dates : i \notin dir[d]
      BY <3>1 DEF PlaceInv, HasCopied, Archiving
    <3>3. ASSUME NEW j \in Invs, j # i PROVE place'[j] = place[j] /\ host'[j] = host[j]
      BY <1>1, <3>1, <3>3
    <3>4. ASSUME NEW j \in Invs, Ev(j) \in db'.events PROVE place'[j] # "none"
      <4>1. CASE Ev(j) \in db.events
        BY <1>1, <3>1, <4>1 DEF PlaceInv
      <4>2. CASE Ev(j) \notin db.events
        <5>1. Msg[i].kind \in Tags /\ Ev(j) = Ev(i)
          BY <3>1, <3>4, <4>2 DEF EvSet
        <5>2. i = j
          BY <5>1 DEF DistinctEvents
        <5> QED
          BY <1>1, <3>1, <5>1, <5>2
      <4> QED
        BY <4>1, <4>2
    <3>5. ASSUME NEW j \in Invs, NEW d \in Dates, j \in dir[d]
          PROVE  host'[j] \in HasCopied /\ place'[j] = place[j]
      BY <3>2, <3>3, <3>5 DEF PlaceInv
    <3> QED
      BY <1>1, <2>1, <3>1, <3>4, <3>5 DEF PlaceInv
  <2>4. CASE HostArchives(i)
    <3>1. PICK pc \in {"moved"} \cup Archiving : host' = [host EXCEPT ![i] = pc]
      BY <2>4, ArchiveMoves
    <3>2. db' = db /\ \A j \in Invs : host'[j] = IF j = i THEN pc ELSE host[j]
      BY <1>1, <2>4, <3>1, ArchiveMoves
    <3>3. pc \in HasCopied
      BY <3>1 DEF HasCopied
    <3>4. \/ dir' = dir /\ place' = place /\ copied' = copied
          \/ /\ dir' = [dir EXCEPT ![DayOf[i]] = @ \cup {i}] /\ place' = place
             /\ copied' = copied \cup {i}
          \/ /\ dir' = dir /\ copied' = copied \ {i}
             /\ place' = [place EXCEPT ![i] = IF @ = "downloads" THEN "archive" ELSE @]
      BY <2>4 DEF HostArchives, HostCopies, HostUpdates, HostLooks, HostInserts,
                  HostRemovesManifest, HostWritesManifest, archiveVars, historyVars
    <3>5. ASSUME NEW j \in Invs
          PROVE  /\ place'[j] = "none" => place[j] = "none"
                 /\ \A d \in Dates : j \in dir'[d] => j = i \/ j \in dir[d]
                 /\ j \in dir'[DayOf[j]] /\ place'[j] = "downloads" /\ j \notin copied'
                    => j \in dir[DayOf[j]] /\ place[j] = "downloads" /\ j \notin copied
      BY <1>1, <3>4
    <3> QED
      BY <2>1, <3>2, <3>3, <3>5 DEF PlaceInv
  <2> QED
    BY <1>2, <2>2, <2>3, <2>4 DEF HostSteps
<1>3. ASSUME NEW i \in Invs, HostFails(i) PROVE PlaceInv'
  <2>1. /\ db' = db /\ place' = place /\ dir' = dir /\ stale' = stale /\ reb' = reb
        /\ copied' = copied
    BY <1>3 DEF HostFails, SameTables, SameArchive
  <2>2. ASSUME NEW j \in Invs, host[j] \in HasCopied
        PROVE  host'[j] \in HasCopied
    BY <1>1, <1>3, <2>2 DEF HostFails, HostMishap, HostLineFails, HostStoreFails,
                            HostArchiveFails, HostKilled, HasCopied, Archiving
  <2> QED
    BY <2>1, <2>2 DEF PlaceInv
<1>4. ASSUME SameTables, host' = host, dir' = dir, copied' = copied,
             (reb'.lines = reb.lines /\ reb'.pc = reb.pc) \/ reb'.lines = <<>>
      PROVE  PlaceInv'
  BY <1>4 DEF PlaceInv, SameTables
<1>5. CASE Rebuilds
  BY <1>5, RebuildPlace DEF Rebuilds
<1>6. CASE Seals
  <2>2. reb'.lines = reb.lines /\ reb'.pc = reb.pc
    BY <1>6, SealersReb DEF Seals
  <2> QED
    BY <1>4, <1>6, <2>2 DEF Seals, SameHosts
<1>7. IdleReb.lines = <<>>
  BY DEF IdleReb
<1> QED
  BY <1>2, <1>3, <1>4, <1>5, <1>6, <1>7, KindsOfSteps
  DEF ManifestGoes, DayEnds, SealFails, Idles, SameHosts, SameArchive

(***************************************************************************)
(* Outside a rebuild's work, the event row of a snapshot in the archive    *)
(* names the archive, but for one whose host has not come to the UPDATE:   *)
(* a rebuild, which first puts Downloads into every row, ends by walking   *)
(* the archive, and repairs what a killed host has left.                   *)
(***************************************************************************)
THEOREM DirectoriesAreTrue ==
    ASSUME DistinctEvents
    PROVE  Spec => []DirectoriesTrue
<1>1. TypeOK /\ PlaceInv => DirectoriesTrue
  BY DEF TypeOK, SealTypeOK, PlaceInv, DirectoriesTrue
<1> QED
  BY <1>1, InitType, NextType, InitPlace, NextPlace, PTL DEF Spec

(***************************************************************************)
(* The replay.  A rebuild is fresh until it has read a file; the lines     *)
(* ahead of the replay are those it holds and those of the files it has    *)
(* still to open.                                                          *)
(***************************************************************************)
Fresh(r) ==
    r.pc \in Dropping \cup {"collect", "collect_log"}
    => r.lines = <<>> /\ r.pending = {} /\ ~r.skipped

Ahead(r) == LinesOf(r.lines) \cup UNION {LinesOf(Content(f)) : f \in r.files}

ArchiveFiles == {d \in Dates : sealedLog[d] # <<>>} \X {"icloud"}
LogDirFiles == {d \in Dates : log[d] # <<>>} \X {"log_dir"}
LogFiles == ArchiveFiles \cup LogDirFiles

SameReplay ==
    reb'.lines = reb.lines /\ reb'.pending = reb.pending /\ reb'.skipped = reb.skipped

DropsSome ==
    /\ reb.pc \in Dropping /\ reb'.pc \in Dropping \ {"drop"}
    /\ IF reb.pc = "drop" THEN \A u \in Urls : ~HasRow(db', u) ELSE db'.visits = db.visits
    /\ SameReplay
DropsLast ==
    /\ reb.pc = "drop_rows" /\ db' = db
    /\ reb'.pc = IF reb.log THEN "collect" ELSE "rehydrate"
    /\ SameReplay
ListsArchive ==
    /\ reb.pc = "collect" /\ db' = db
    /\ reb'.pc = "collect_log" /\ reb'.files = ArchiveFiles
    /\ SameReplay
ListsLogDir ==
    /\ reb.pc = "collect_log" /\ db' = db
    /\ reb'.pc = "replay" /\ reb'.files = reb.files \cup LogDirFiles
    /\ SameReplay
Opens(f) ==
    /\ reb.pc = "replay" /\ reb.lines = <<>> /\ db' = db
    /\ f \in reb.files /\ \A g \in reb.files \ {f} : Before(f, g)
    /\ reb'.pc = "replay" /\ reb'.files = reb.files \ {f} /\ reb'.lines = Content(f)
    /\ reb'.pending = reb.pending /\ reb'.skipped = reb.skipped
Reads(l) ==
    /\ reb.pc = "replay" /\ reb.lines # <<>> /\ l = reb.lines[1]
    /\ db' = IF Applies(l) THEN ApplyAction(db, l.id) ELSE db
    /\ reb'.pc = "replay" /\ reb'.files = reb.files /\ reb'.lines = Tail(reb.lines)
    /\ reb'.pending = IF l.half = "action" THEN reb.pending \cup {l.id}
                      ELSE reb.pending \ {l.id}
    /\ reb'.skipped = (reb.skipped \/ Skips(l))
Finishes ==
    /\ reb.pc = "replay" /\ reb.lines = <<>> /\ reb.files = {} /\ db' = db
    /\ reb'.pc \in {"rehydrate", "done"}
    /\ reb'.skipped = (reb.skipped \/ reb.pending # {})
Walks ==
    /\ reb.pc = "rehydrate" /\ db' = db
    /\ reb'.pc = "done" /\ reb'.skipped = reb.skipped

LEMMA RebuildFields ==
    ASSUME TypeOK, RebuildSteps
    PROVE  \/ ~reb'.quiet /\ Fresh(reb')
           \/ reb'.pc = "drop" /\ Fresh(reb')
           \/ /\ reb'.log = reb.log /\ reb'.quiet = reb.quiet
              /\ \/ DropsSome \/ DropsLast \/ ListsArchive \/ ListsLogDir
                 \/ Finishes \/ Walks
                 \/ \E f \in Dates \X Sources : Opens(f)
                 \/ \E l \in Lines : Reads(l)
<1>1. reb \in RebStates
  BY DEF TypeOK, RebStates
<1>2. IdleReb \in RebStates
  BY DEF IdleReb, RebStates, RebPcs
<1>3. ~IdleReb.quiet /\ Fresh(IdleReb)
  BY DEF IdleReb, Fresh, Dropping
<1>4. ASSUME NEW r \in RebStates
      PROVE  /\ EnterLogPhase(r).pc = IF r.log THEN "collect" ELSE "rehydrate"
             /\ EnterRehydrate(r).pc \in {"rehydrate", "done"}
             /\ \A y \in {EnterLogPhase(r), EnterRehydrate(r)} :
                   /\ y.log = r.log /\ y.quiet = r.quiet /\ y.lines = r.lines
                   /\ y.pending = r.pending /\ y.skipped = r.skipped
  BY DEF EnterLogPhase, EnterRehydrate, RebStates
<1>5. ASSUME NEW o \in Options, RebuildBegins(o)
      PROVE  (~reb'.quiet \/ reb'.pc = "drop") /\ Fresh(reb')
  <2> DEFINE x == [IdleReb EXCEPT !.log = o.log, !.rehydrate = o.rehydrate,
                                  !.quiet = o.truncate]
             y == [x EXCEPT !.pc = "drop"]
  <2>0. o.log \in BOOLEAN /\ o.rehydrate \in BOOLEAN /\ o.truncate \in BOOLEAN
    BY OptionsAssumption
  <2>1. /\ x \in RebStates /\ x.quiet = o.truncate
        /\ x.lines = <<>> /\ x.pending = {} /\ ~x.skipped
        /\ y.pc = "drop" /\ y.lines = <<>> /\ y.pending = {} /\ ~y.skipped
    BY <1>2, <2>0 DEF RebStates, IdleReb
  <2>2. reb' = IF o.truncate THEN y ELSE EnterLogPhase(x)
    BY <1>5 DEF RebuildBegins
  <2> HIDE DEF x, y
  <2> QED
    BY <1>4, <2>1, <2>2 DEF Fresh
<1> USE DEF SameReplay
<1>6. CASE TruncateRebuildableTables
  <2>1. CASE DropVisits
    <3>1. \A u \in Urls : ~HasRow(db', u)
      <4>1. EmptyDb = [visits |-> EmptyDb.visits, interest |-> EmptyDb.interest,
                       events |-> EmptyDb.events, count |-> EmptyDb.count]
        BY DEF EmptyDb
      <4>2. db'.visits = [u \in Urls |-> NoStamp]
        BY <2>1, <4>1 DEF DropVisits, EmptyDb
      <4> QED
        BY <4>2 DEF HasRow
    <3> QED
      BY <1>1, <2>1, <3>1 DEF DropVisits, DropsSome, Dropping, RebStates
  <2>2. ASSUME NEW t \in Tags, DropEvents(t)
        PROVE  reb'.log = reb.log /\ reb'.quiet = reb.quiet /\ DropsSome
    <3>1. db'.visits = db.visits
      <4>1. db \in Db
        BY DEF TypeOK, SealTypeOK
      <4> QED
        BY <2>2, <4>1 DEF DropEvents, Db
    <3>2. reb.pc \in Dropping \ {"drop"}
      BY <2>2 DEF DropEvents, Dropping
    <3>3. /\ reb'.pc \in Dropping \ {"drop"} /\ reb'.log = reb.log
          /\ reb'.quiet = reb.quiet /\ SameReplay
      BY <1>1, <2>2 DEF DropEvents, Dropping, RebStates
    <3> QED
      BY <3>1, <3>2, <3>3 DEF DropsSome
  <2>3. CASE DropSnapshots
    BY <1>1, <1>4, <2>3 DEF DropSnapshots, DropsLast
  <2> QED
    BY <1>6, <2>1, <2>2, <2>3 DEF TruncateRebuildableTables
<1>7. CASE ListArchive \/ ListLogDir
  <2>1. CASE ListArchive
    BY <1>1, <2>1 DEF ListArchive, ListsArchive, ArchiveFiles, archiveVars, RebStates
  <2>2. CASE ListLogDir
    BY <1>1, <2>2 DEF ListLogDir, ListsLogDir, LogDirFiles, archiveVars, RebStates
  <2> QED
    BY <1>7, <2>1, <2>2
<1>8. ASSUME NEW f \in Dates \X Sources, OpenFile(f)
      PROVE  \/ ~reb'.quiet /\ Fresh(reb')
             \/ reb'.log = reb.log /\ reb'.quiet = reb.quiet /\ Opens(f)
  <2>1. CASE Content(f) = <<>>
    BY <1>3, <1>8, <2>1 DEF OpenFile
  <2>2. CASE Content(f) # <<>>
    BY <1>1, <1>8, <2>2 DEF OpenFile, Opens, RebStates
  <2> QED
    BY <2>1, <2>2
<1>9. ASSUME ReplayOneLine
      PROVE  /\ reb'.log = reb.log /\ reb'.quiet = reb.quiet
             /\ \E l \in Lines : Reads(l)
  <2> DEFINE l == Head(reb.lines)
             p == IF l.half = "action" THEN reb.pending \cup {l.id} ELSE reb.pending \ {l.id}
  <2>1. /\ reb.pc = "replay" /\ reb.lines # <<>> /\ l \in Lines /\ l = reb.lines[1]
    BY <1>1, <1>9 DEF ReplayOneLine, RebStates
  <2>2. /\ reb' = [reb EXCEPT !.lines = Tail(reb.lines), !.pending = p,
                              !.skipped = reb.skipped \/ Skips(l)]
        /\ db' = IF Applies(l) THEN ApplyAction(db, l.id) ELSE db
    BY <1>9 DEF ReplayOneLine
  <2> HIDE DEF l
  <2> QED
    BY <1>1, <2>1, <2>2 DEF Reads, RebStates
<1>10. ASSUME EndReplay
       PROVE  reb'.log = reb.log /\ reb'.quiet = reb.quiet /\ Finishes
  <2> DEFINE x == [reb EXCEPT !.skipped = reb.skipped \/ reb.pending # {}, !.pending = {}]
  <2>1. /\ x \in RebStates /\ x.log = reb.log /\ x.quiet = reb.quiet
        /\ x.skipped = (reb.skipped \/ reb.pending # {})
    BY <1>1 DEF RebStates
  <2>2. reb' = EnterRehydrate(x)
    BY <1>10 DEF EndReplay
  <2> HIDE DEF x
  <2> QED
    BY <1>4, <1>10, <2>1, <2>2 DEF EndReplay, Finishes, archiveVars
<1>11. CASE RehydrateFilesystem
  BY <1>1, <1>11 DEF RehydrateFilesystem, Walks, RebStates
<1>12. CASE RebuildEnds
  BY <1>3, <1>12 DEF RebuildEnds
<1> QED
  BY <1>5, <1>6, <1>7, <1>8, <1>9, <1>10, <1>11, <1>12 DEF RebuildSteps

(* Every other step leaves the rebuild and what it reads alone, or it is   *)
(* no longer quiet.                                                        *)
LEMMA QuietSteps ==
    ASSUME TypeOK, [Next]_vars
    PROVE  \/ Rebuilds
           \/ reb' = reb /\ (reb.pc = "idle" \/ (SameLogs /\ db' = db))
           \/ ~reb'.quiet /\ (Fresh(reb) => Fresh(reb'))
<1>1. reb \in RebStates
  BY DEF TypeOK, RebStates
<1>2. ASSUME NEW i \in Invs, HostSteps(i)
      PROVE  ~reb'.quiet /\ (Fresh(reb) => Fresh(reb'))
  <2>1. Disturb
    BY <1>2, ArchiveMoves DEF HostSteps, HostLogs, HostStores, HostResult, AppendLine
  <2> QED
    BY <1>1, <2>1 DEF Disturb, RebStates, Fresh
<1>3. ASSUME Seals
      PROVE  \/ reb' = reb /\ (reb.pc = "idle" \/ (SameLogs /\ db' = db))
             \/ ~reb'.quiet /\ (Fresh(reb) => Fresh(reb'))
  <2>1. db' = db
    BY <1>3 DEF Seals, SameTables
  <2>2. ASSUME NEW d \in Dates, SnapshotSealer(d) \/ BuildManifestRows(d) \/ WriteManifest(d)
                                \/ FlipSealed(d) \/ ClearSealError(d)
        PROVE  SameLogs
    BY <2>2 DEF SnapshotSealer, BuildManifestRows, WriteManifest, FlipSealed, ClearSealError,
                archiveVars, SameLogs
  <2>3. ASSUME SealCompletedDays \/ NothingToMerge PROVE SameLogs
    BY <2>3 DEF SealCompletedDays, NothingToMerge, archiveVars, SameLogs
  <2>4. ASSUME NEW d \in Dates, SealerMovesLog(d)
        PROVE  \/ reb' = reb /\ reb.pc = "idle"
               \/ ~reb'.quiet /\ (Fresh(reb) => Fresh(reb'))
    <3>1. CASE reb.pc = "idle"
      BY <2>4, <3>1 DEF SealerMovesLog
    <3>2. CASE reb.pc # "idle"
      BY <1>1, <2>4, <3>2 DEF SealerMovesLog, RebStates, Fresh
    <3> QED
      BY <3>1, <3>2
  <2> QED
    BY <1>3, <2>1, <2>2, <2>3, <2>4, SealersStep DEF Seals
<1>4. ASSUME SameLogs, db' = db, reb' = reb \/ reb' = IdleReb
      PROVE  \/ reb' = reb /\ SameLogs /\ db' = db
             \/ ~reb'.quiet /\ Fresh(reb')
  BY <1>4 DEF IdleReb, Fresh, Dropping
<1> QED
  BY <1>2, <1>3, <1>4, KindsOfSteps
  DEF HostFails, ManifestGoes, DayEnds, SealFails, Idles, SameArchive, SameTables

(***************************************************************************)
(* The first day.  In a quiet replay, of the successes that are on disk    *)
(* those that are no longer ahead have given their url its time; a url's   *)
(* time is that of a success of its first day, because the files are read  *)
(* day by day.                                                             *)
(***************************************************************************)
Timed(v, A) == \A i \in Invs : LineOf(i, "success") \in OnDisk \ A => v[Msg[i].url] # NoStamp

Earliest(v) ==
    \A u \in Urls : v[u] # NoStamp =>
        \E j \in Succeeded : /\ Msg[j].url = u /\ v[u] = Msg[j].ts
                             /\ \A i \in Succeeded : Msg[i].url = u => DayOf[j] <= DayOf[i]

InDayOrder(r) ==
    \E d \in Dates : /\ \A l \in LinesOf(r.lines) : DayOf[l.id] = d
                     /\ \A f \in r.files : d <= f[1]

Replayed(v, r) ==
    /\ Timed(v, Ahead(r)) /\ Earliest(v) /\ InDayOrder(r)
    /\ LinesOf(r.lines) \subseteq OnDisk
    /\ \A i \in r.pending : LineOf(i, "action") \in OnDisk

FirstInv ==
    /\ Fresh(reb)
    /\ reb.quiet /\ reb.log /\ ~reb.skipped =>
       /\ reb.pc \in (Dropping \ {"drop"}) \cup {"collect", "collect_log"}
             => \A u \in Urls : ~HasRow(db, u)
       /\ reb.pc = "collect_log" => reb.files = ArchiveFiles
       /\ reb.pc = "replay" => Replayed(db.visits, reb)
       /\ reb.pc \in {"rehydrate", "done"} => Timed(db.visits, {}) /\ Earliest(db.visits)

LEMMA ApplyActionVisits ==
    ASSUME NEW x \in Db, NEW i \in Invs
    PROVE  ApplyAction(x, i).visits =
              IF x.visits[Msg[i].url] # NoStamp THEN x.visits
              ELSE [x.visits EXCEPT ![Msg[i].url] = Msg[i].ts]
<1> DEFINE u == Msg[i].url
           b == InsertVisit(x, u, Msg[i].ts)
<1>1. /\ u \in Urls /\ Msg[i].ts \in Stamps /\ b \in Db /\ HasRow(b, u)
  BY MsgTyped, InsertVisitType
<1>2. b.visits = IF x.visits[u] # NoStamp THEN x.visits
                 ELSE [x.visits EXCEPT ![u] = Msg[i].ts]
  <2>1. CASE HasRow(x, u)
    BY <2>1 DEF InsertVisit, HasRow
  <2>2. CASE ~HasRow(x, u)
    <3>1. b = [x EXCEPT !.visits = [x.visits EXCEPT ![u] = Msg[i].ts]]
      BY <2>2 DEF InsertVisit
    <3> QED
      BY <2>2, <3>1 DEF HasRow, Db
  <2> QED
    BY <2>1, <2>2
<1>3. ASSUME NEW y \in Db, NEW w, NEW ts, NEW k
      PROVE  HostTag(y, w, ts, k).visits = y.visits
  <2>1. SetOfInterest(y, w).visits = y.visits
    BY DEF SetOfInterest, Db
  <2>2. HostInsertEvent(y, w, ts, k).visits = y.visits
    <3> DEFINE z == [y EXCEPT !.events = @ \cup {[tag |-> k, url |-> w, ts |-> ts]}]
    <3>1. z.visits = y.visits
      BY DEF Db
    <3>2. BumpCounter(z, k, w).visits = z.visits
      BY DEF BumpCounter, Db
    <3> QED
      BY <3>1, <3>2 DEF HostInsertEvent, TagWithFilename
  <2> QED
    BY <2>1, <2>2 DEF HostTag, Tags
<1>4. ApplyAction(x, i).visits = b.visits
  BY <1>1, <1>3 DEF ApplyAction
<1> QED
  BY <1>2, <1>4

LEMMA OnDiskTyped ==
    ASSUME TypeOK
    PROVE  /\ \A f \in Dates \X Sources : /\ Content(f) \in Seq(Lines) /\ f[1] \in Dates
                                          /\ LinesOf(Content(f)) \subseteq OnDisk
           /\ \A l \in OnDisk : \E f \in LogFiles : l \in LinesOf(Content(f))
           /\ LogFiles \subseteq Dates \X Sources
<1>1. log \in [Dates -> Seq(Lines)] /\ sealedLog \in [Dates -> Seq(Lines)]
  BY DEF TypeOK, SealTypeOK
<1>2. ASSUME NEW f \in Dates \X Sources
      PROVE  /\ Content(f) \in Seq(Lines) /\ f[1] \in Dates
             /\ LinesOf(Content(f)) \subseteq OnDisk
  BY <1>1 DEF Content, OnDisk
<1>3. ASSUME NEW l \in OnDisk PROVE \E f \in LogFiles : l \in LinesOf(Content(f))
  <2>1. PICK d \in Dates : l \in LinesOf(log[d]) \cup LinesOf(sealedLog[d])
    BY <1>3 DEF OnDisk
  <2>2. LinesOf(<<>>) = {}
    BY DEF LinesOf
  <2>3. CASE l \in LinesOf(log[d])
    <3>1. <<d, "log_dir">> \in LogFiles
      BY <2>2, <2>3 DEF LogFiles, LogDirFiles
    <3> QED
      BY <2>3, <3>1 DEF Content
  <2>4. CASE l \in LinesOf(sealedLog[d])
    <3>1. <<d, "icloud">> \in LogFiles
      BY <2>2, <2>4 DEF LogFiles, ArchiveFiles
    <3> QED
      BY <2>4, <3>1 DEF Content
  <2> QED
    BY <2>1, <2>3, <2>4
<1> QED
  BY <1>2, <1>3 DEF LogFiles, ArchiveFiles, LogDirFiles, Sources

(* Reading a line takes it, or nothing, from what is ahead.                *)
LEMMA AheadOfTail ==
    ASSUME TypeOK, NEW l, Reads(l)
    PROVE  /\ l \in LinesOf(reb.lines) /\ LinesOf(reb.lines) = {l} \cup LinesOf(reb'.lines)
           /\ Ahead(reb) = {l} \cup Ahead(reb')
<1>1. reb.lines \in Seq(Lines) /\ reb.lines # <<>>
  BY DEF TypeOK, Reads
<1>2. LinesOf(reb.lines) = {l} \cup LinesOf(Tail(reb.lines))
  <2> DEFINE t == Tail(reb.lines)
  <2>1. /\ Len(reb.lines) \in Nat \ {0} /\ Len(t) = Len(reb.lines) - 1
        /\ \A k \in 1..Len(t) : k + 1 \in 1..Len(reb.lines) /\ t[k] = reb.lines[k + 1]
        /\ \A k \in 1..Len(reb.lines) : k # 1 => k - 1 \in 1..Len(t) /\ reb.lines[k] = t[k - 1]
    BY <1>1
  <2>2. 1 \in 1..Len(reb.lines) /\ l = reb.lines[1]
    BY <2>1 DEF Reads
  <2> HIDE DEF t
  <2>3. LinesOf(reb.lines) \subseteq {l} \cup LinesOf(t)
    BY <2>1, <2>2 DEF LinesOf
  <2>4. {l} \cup LinesOf(t) \subseteq LinesOf(reb.lines)
    BY <2>1, <2>2 DEF LinesOf
  <2> QED
    BY <2>3, <2>4 DEF t
<1> QED
  BY <1>2 DEF Ahead, Reads

(* A success that is applied gives its url a time, or finds one there.     *)
LEMMA ReadsFirst ==
    ASSUME TypeOK, LogsInv, NEW l \in Lines, Reads(l), ~reb'.skipped,
           Replayed(db.visits, reb)
    PROVE  Replayed(db'.visits, reb')
<1> DEFINE v == db.visits  w == db'.visits
<1>1. /\ reb \in RebStates /\ db \in Db /\ v \in [Urls -> Stamps \cup {NoStamp}]
      /\ l.id \in Invs /\ l = LineOf(l.id, l.half)
      /\ l.half \in {"action", "success", "error"}
  BY DEF TypeOK, SealTypeOK, RebStates, Db, Lines, LineOf
<1>2. /\ l \in LinesOf(reb.lines) /\ LinesOf(reb.lines) = {l} \cup LinesOf(reb'.lines)
      /\ Ahead(reb) = {l} \cup Ahead(reb') /\ l \in OnDisk
      /\ reb'.files = reb.files /\ ~Skips(l)
  <2>1. /\ l \in LinesOf(reb.lines) /\ LinesOf(reb.lines) = {l} \cup LinesOf(reb'.lines)
        /\ Ahead(reb) = {l} \cup Ahead(reb')
    BY AheadOfTail
  <2> QED
    BY <2>1 DEF Replayed, Reads
<1>3. (l.half = "success") <=> Applies(l)
  BY <1>1, <1>2 DEF Skips, Applies
<1>5. InDayOrder(reb')
  BY <1>2 DEF Replayed, InDayOrder
<1>6. /\ LinesOf(reb'.lines) \subseteq OnDisk
      /\ \A i \in reb'.pending : LineOf(i, "action") \in OnDisk
  BY <1>1, <1>2 DEF Replayed, Reads
<1>7. CASE l.half # "success"
  <2>1. w = v
    BY <1>3, <1>7 DEF Reads
  <2>2. Timed(v, Ahead(reb'))
    BY <1>1, <1>2, <1>7, LinesDiffer DEF Replayed, Timed
  <2> QED
    BY <1>2, <1>5, <1>6, <2>1, <2>2 DEF Replayed
<1>8. CASE l.half = "success"
  <2> DEFINE j == l.id  u == Msg[j].url
  <2>1. /\ w = IF v[u] # NoStamp THEN v ELSE [v EXCEPT ![u] = Msg[j].ts]
        /\ j \in reb.pending
    BY <1>1, <1>3, <1>8, ApplyActionVisits DEF Reads, Applies
  <2>2. j \in Succeeded /\ u \in Urls /\ Msg[j].ts # NoStamp
    <3>1. LineOf(j, "action") \in OnDisk /\ LineOf(j, "success") \in OnDisk
      BY <1>1, <1>2, <1>8, <2>1 DEF Replayed
    <3> QED
      BY <1>1, <3>1, MsgTyped, NoStampAssumption DEF Succeeded, LineOf
  <2>3. w[u] # NoStamp /\ \A x \in Urls : v[x] # NoStamp => w[x] = v[x]
    BY <1>1, <2>1, <2>2
  <2>4. Timed(w, Ahead(reb'))
    <3> SUFFICES ASSUME NEW i \in Invs, LineOf(i, "success") \in OnDisk \ Ahead(reb')
                 PROVE  w[Msg[i].url] # NoStamp
      BY DEF Timed
    <3>1. CASE LineOf(i, "success") = l
      <4>1. i = j
        BY <3>1 DEF LineOf
      <4> QED
        BY <2>3, <4>1
    <3>2. CASE LineOf(i, "success") # l
      <4>1. LineOf(i, "success") \in OnDisk \ Ahead(reb)
        BY <1>2, <3>2
      <4> QED
        BY <2>3, <4>1, MsgTyped DEF Replayed, Timed
    <3> QED
      BY <3>1, <3>2
  <2>5. Earliest(w)
    <3>1. CASE v[u] # NoStamp
      BY <2>1, <3>1 DEF Replayed
    <3>2. CASE v[u] = NoStamp
      <4>1. w = [v EXCEPT ![u] = Msg[j].ts]
        BY <2>1, <3>2
      <4>2. ASSUME NEW i \in Succeeded, Msg[i].url = u PROVE DayOf[j] <= DayOf[i]
        <5>1. i \in Invs /\ LineOf(i, "success") \in OnDisk
          BY DEF Succeeded, LineOf
        <5>2. LineOf(i, "success") \in Ahead(reb)
          BY <3>2, <4>2, <5>1 DEF Replayed, Timed
        <5>3. PICK d \in Dates : /\ \A k \in LinesOf(reb.lines) : DayOf[k.id] = d
                                 /\ \A f \in reb.files : d <= f[1]
          BY DEF Replayed, InDayOrder
        <5>4. DayOf[j] = d /\ d \in Nat
          BY <1>2, <5>3, DatesAreNumbers
        <5>5. CASE LineOf(i, "success") \in LinesOf(reb.lines)
          <6>1. DayOf[i] = d
            BY <5>3, <5>5 DEF LineOf
          <6> QED
            BY <5>4, <6>1
        <5>6. ASSUME NEW f \in reb.files, LineOf(i, "success") \in LinesOf(Content(f))
              PROVE  DayOf[j] <= DayOf[i]
          <6>1. f[1] \in Dates /\ f \in Dates \X Sources
            BY <1>1 DEF RebStates
          <6>2. DayOf[LineOf(i, "success").id] = f[1]
            BY <5>6, <6>1 DEF LogsInv, LogTrue, Content, LinesOf
          <6> QED
            BY <5>3, <5>4, <6>2 DEF LineOf
        <5> QED
          BY <5>2, <5>5, <5>6 DEF Ahead
      <4> SUFFICES ASSUME NEW x \in Urls, w[x] # NoStamp
                   PROVE  \E k \in Succeeded :
                             /\ Msg[k].url = x /\ w[x] = Msg[k].ts
                             /\ \A i \in Succeeded : Msg[i].url = x => DayOf[k] <= DayOf[i]
        BY DEF Earliest
      <4>3. CASE x = u
        BY <1>1, <2>2, <4>1, <4>2, <4>3
      <4>4. CASE x # u
        <5>1. w[x] = v[x]
          BY <1>1, <4>1, <4>4
        <5> QED
          BY <5>1 DEF Replayed, Earliest
      <4> QED
        BY <4>3, <4>4
    <3> QED
      BY <3>1, <3>2
  <2> QED
    BY <1>5, <1>6, <2>4, <2>5 DEF Replayed
<1> QED
  BY <1>7, <1>8

LEMMA RebuildFirst ==
    ASSUME TypeOK, LogsInv, FirstInv, Rebuilds
    PROVE  FirstInv'
<1>1. reb \in RebStates /\ SameLogs
  BY DEF TypeOK, RebStates, Rebuilds, SameArchive
<1>2. OnDisk' = OnDisk /\ Succeeded' = Succeeded
  <2>1. OnDisk' = OnDisk
    BY <1>1 DEF OnDisk, SameLogs
  <2> QED
    BY <2>1 DEF Succeeded
<1>3. Ahead(reb)' = Ahead(reb')
  BY <1>1 DEF Ahead, Content, SameLogs
<1>4. /\ Timed(db.visits, {})' <=> Timed(db'.visits, {})
      /\ Timed(db.visits, Ahead(reb))' <=> Timed(db'.visits, Ahead(reb'))
      /\ Earliest(db.visits)' <=> Earliest(db'.visits)
  <2>1. Timed(db.visits, {})' <=> Timed(db'.visits, {})
    BY <1>2 DEF Timed
  <2>2. Timed(db.visits, Ahead(reb))' <=> Timed(db'.visits, Ahead(reb'))
    BY <1>2, <1>3 DEF Timed
  <2>3. Earliest(db.visits)' <=> Earliest(db'.visits)
    BY <1>2 DEF Earliest
  <2> QED
    BY <2>1, <2>2, <2>3
<1>5. /\ InDayOrder(reb)' <=> InDayOrder(reb')
      /\ Fresh(reb)' <=> Fresh(reb')
      /\ ArchiveFiles' = ArchiveFiles
  BY <1>1 DEF InDayOrder, Fresh, ArchiveFiles, SameLogs
<1> USE DEF SameReplay, Dropping
<1>6. Replayed(db.visits, reb)' <=> Replayed(db'.visits, reb')
  BY <1>2, <1>4, <1>5 DEF Replayed
<1> DEFINE G == reb.quiet /\ reb.log /\ ~reb.skipped
<1>7. CASE ~reb'.quiet /\ Fresh(reb')
  BY <1>5, <1>7 DEF FirstInv
<1>8. CASE reb'.pc = "drop" /\ Fresh(reb')
  BY <1>5, <1>8 DEF FirstInv
<1>9. ASSUME reb'.log = reb.log, reb'.quiet = reb.quiet, DropsSome \/ DropsLast
      PROVE  FirstInv'
  <2>1. Fresh(reb)' /\ (reb'.skipped <=> reb.skipped)
    BY <1>9 DEF DropsSome, DropsLast, Fresh, FirstInv
  <2>2. ASSUME reb.quiet, reb.log, ~reb.skipped
        PROVE  \A u \in Urls : ~HasRow(db', u)
    BY <1>9, <2>2 DEF DropsSome, DropsLast, FirstInv, HasRow
  <2>3. reb'.log => reb'.pc \in (Dropping \ {"drop"}) \cup {"collect"}
    BY <1>9 DEF DropsSome, DropsLast
  <2>4. (\A u \in Urls : ~HasRow(db, u))' <=> \A u \in Urls : ~HasRow(db', u)
    BY DEF HasRow
  <2> QED
    BY <1>9, <2>1, <2>2, <2>3, <2>4 DEF FirstInv
<1>10. ASSUME reb'.log = reb.log, reb'.quiet = reb.quiet, ListsArchive
       PROVE  FirstInv'
  <2>1. /\ Fresh(reb)' /\ reb'.pc = "collect_log" /\ (reb'.skipped <=> reb.skipped)
        /\ reb'.files = ArchiveFiles /\ db' = db /\ reb.pc = "collect"
    BY <1>10 DEF ListsArchive, Fresh, FirstInv
  <2> QED
    BY <1>5, <1>10, <2>1 DEF FirstInv, HasRow
<1>15. ASSUME reb'.log = reb.log, reb'.quiet = reb.quiet, ListsLogDir
       PROVE  FirstInv'
  <2>1. /\ Fresh(reb)' /\ reb'.pc = "replay" /\ (reb'.skipped <=> reb.skipped)
        /\ reb.pc = "collect_log"
    BY <1>15 DEF ListsLogDir, Fresh
  <2>2. ASSUME \A u \in Urls : ~HasRow(db, u), reb.files = ArchiveFiles
        PROVE  Replayed(db'.visits, reb')
    <3>1. /\ db' = db /\ reb'.lines = <<>> /\ reb'.pending = {} /\ reb'.files = LogFiles
          /\ LinesOf(reb'.lines) = {}
      BY <1>15, <2>2 DEF ListsLogDir, FirstInv, Fresh, LinesOf, LogFiles
    <3>2. OnDisk \subseteq Ahead(reb')
      BY <3>1, OnDiskTyped DEF Ahead
    <3>3. InDayOrder(reb')
      <4>1. 1 \in Dates /\ \A d \in Dates : 1 <= d
        BY LastDateAssumption DEF Dates
      <4>2. \A f \in LogFiles : f[1] \in Dates
        BY OnDiskTyped
      <4> QED
        BY <3>1, <4>1, <4>2 DEF InDayOrder
    <3> QED
      BY <2>2, <3>1, <3>2, <3>3 DEF Replayed, Timed, Earliest, HasRow
  <2> QED
    BY <1>6, <1>15, <2>1, <2>2 DEF FirstInv
<1>11. ASSUME reb'.log = reb.log, reb'.quiet = reb.quiet, Finishes
       PROVE  FirstInv'
  <2>1. Fresh(reb)' /\ reb'.pc \in {"rehydrate", "done"} /\ (~reb'.skipped => ~reb.skipped)
        /\ db' = db
    BY <1>11 DEF Finishes, Fresh
  <2>2. Ahead(reb) = {}
    BY <1>11 DEF Finishes, Ahead, LinesOf
  <2> QED
    BY <1>4, <1>11, <2>1, <2>2 DEF FirstInv, Finishes, Replayed
<1>12. ASSUME reb'.log = reb.log, reb'.quiet = reb.quiet, Walks
       PROVE  FirstInv'
  <2>1. Fresh(reb)'
    BY <1>12 DEF Walks, Fresh
  <2> QED
    BY <1>4, <1>12, <2>1 DEF FirstInv, Walks
<1>13. ASSUME reb'.log = reb.log, reb'.quiet = reb.quiet, NEW f \in Dates \X Sources, Opens(f)
       PROVE  FirstInv'
  <2>1. /\ Fresh(reb)' /\ reb'.pc = "replay" /\ (reb'.skipped <=> reb.skipped) /\ db' = db
        /\ reb.pc = "replay"
    BY <1>13 DEF Opens, Fresh
  <2>2. ASSUME Replayed(db.visits, reb)
        PROVE  Replayed(db'.visits, reb')
    <3>1. /\ f \in reb.files /\ reb'.files = reb.files \ {f} /\ reb'.lines = Content(f)
          /\ reb.lines = <<>> /\ reb'.pending = reb.pending
          /\ \A g \in reb'.files : Before(f, g)
      BY <1>13 DEF Opens
    <3>2. Ahead(reb') = Ahead(reb)
      BY <3>1 DEF Ahead, LinesOf
    <3>3. /\ LinesOf(Content(f)) \subseteq OnDisk /\ f[1] \in Dates /\ f[1] \in Nat
          /\ reb.files \subseteq Dates \X Sources
      BY <1>1, <1>13, OnDiskTyped, DatesAreNumbers DEF RebStates
    <3>4. InDayOrder(reb')
      <4>1. \A l \in LinesOf(Content(f)) : DayOf[l.id] = f[1]
        BY <3>3 DEF LogsInv, LogTrue, Content, LinesOf
      <4>2. \A g \in reb'.files : f[1] <= g[1]
        BY <3>1, <3>3, DatesAreNumbers DEF Before
      <4> QED
        BY <3>1, <3>3, <4>1, <4>2 DEF InDayOrder
    <3> QED
      BY <2>1, <2>2, <3>1, <3>2, <3>3, <3>4 DEF Replayed
  <2> QED
    BY <1>6, <1>13, <2>1, <2>2 DEF FirstInv
<1>14. ASSUME reb'.log = reb.log, reb'.quiet = reb.quiet, NEW l \in Lines, Reads(l)
       PROVE  FirstInv'
  <2>1. /\ Fresh(reb)' /\ reb'.pc = "replay" /\ reb.pc = "replay"
        /\ (~reb'.skipped => ~reb.skipped)
    BY <1>14 DEF Reads, Fresh
  <2> QED
    BY <1>6, <1>14, <2>1, ReadsFirst DEF FirstInv
<1> QED
  BY <1>7, <1>8, <1>9, <1>10, <1>11, <1>12, <1>13, <1>14, <1>15, RebuildFields DEF Rebuilds

LEMMA NextFirst == TypeOK /\ LogsInv /\ FirstInv /\ [Next]_vars => FirstInv'
<1> SUFFICES ASSUME TypeOK, LogsInv, FirstInv, [Next]_vars PROVE FirstInv'
  OBVIOUS
<1>1. CASE Rebuilds
  BY <1>1, RebuildFirst
<1>2. ASSUME reb' = reb, SameLogs, db' = db PROVE FirstInv'
  <2>1. OnDisk' = OnDisk /\ Ahead(reb)' = Ahead(reb)
    BY <1>2 DEF OnDisk, Ahead, Content, SameLogs
  <2>2. Succeeded' = Succeeded
    BY <2>1 DEF Succeeded
  <2>3. /\ Timed(db.visits, {})' <=> Timed(db.visits, {})
        /\ Timed(db.visits, Ahead(reb))' <=> Timed(db.visits, Ahead(reb))
        /\ Earliest(db.visits)' <=> Earliest(db.visits)
    BY <1>2, <2>1, <2>2 DEF Timed, Earliest
  <2>4. Replayed(db.visits, reb)' <=> Replayed(db.visits, reb)
    BY <1>2, <2>1, <2>3 DEF Replayed, InDayOrder
  <2> QED
    BY <1>2, <2>3, <2>4 DEF FirstInv, Fresh, HasRow, ArchiveFiles, SameLogs
<1>3. CASE reb' = reb /\ reb.pc = "idle"
  BY <1>3 DEF FirstInv, Fresh, Dropping
<1>4. CASE ~reb'.quiet /\ (Fresh(reb) => Fresh(reb'))
  BY <1>4 DEF FirstInv, Fresh
<1> QED
  BY <1>1, <1>2, <1>3, <1>4, QuietSteps

LEMMA InitFirst == Init => FirstInv
BY DEF Init, FirstInv, Fresh, IdleReb, Dropping

(***************************************************************************)
(* A rebuild from nothing that no other process disturbed and that skipped *)
(* no line gives each url the time of a success of its first day.          *)
(***************************************************************************)
THEOREM FirstDayAlwaysWins == Spec => []FirstDayWins
<1>1. TypeOK /\ FirstInv => FirstDayWins
  <2> SUFFICES ASSUME TypeOK, FirstInv, reb.pc = "done", reb.log, reb.quiet, ~reb.skipped,
                      NEW i \in Succeeded
               PROVE  \E j \in Succeeded : /\ Msg[j].url = Msg[i].url
                                            /\ db.visits[Msg[i].url] = Msg[j].ts
                                            /\ DayOf[j] <= DayOf[i]
    BY DEF FirstDayWins
  <2>1. Timed(db.visits, {}) /\ Earliest(db.visits)
    BY DEF FirstInv
  <2>2. i \in Invs /\ LineOf(i, "success") \in OnDisk /\ Msg[i].url \in Urls
    BY MsgTyped DEF Succeeded, LineOf
  <2>3. db.visits[Msg[i].url] # NoStamp
    BY <2>1, <2>2 DEF Timed
  <2> QED
    BY <2>1, <2>2, <2>3 DEF Earliest
<1> QED
  BY <1>1, InitType, NextType, InitHosts, NextHosts, InitLogs, NextLogs, InitFirst, NextFirst,
     PTL DEF Spec

(***************************************************************************)
(* The order of the lines.  In the log of a day, and in the two files of a *)
(* day read one after the other, a result comes after its action if the    *)
(* action is there: a host appends them in this order, and the sealing     *)
(* programs move, join and remove whole files.                             *)
(***************************************************************************)
ResultsFollow(s) ==
    \A k \in 1..Len(s) :
        s[k].half # "action" /\ LineOf(s[k].id, "action") \in LinesOf(s)
            => \E j \in 1..(k - 1) : s[j] = LineOf(s[k].id, "action")

OrderInv ==
    \A d \in Dates : ResultsFollow(log[d]) /\ ResultsFollow(sealedLog[d] \o log[d])

LEMMA InitOrder == Init => OrderInv
<1>1. ResultsFollow(<<>>)
  BY DEF ResultsFollow
<1> QED
  BY <1>1 DEF Init, SealInit, OrderInv

LEMMA ConcatIs ==
    ASSUME NEW s \in Seq(Lines), NEW t \in Seq(Lines)
    PROVE  /\ s \o t \in Seq(Lines)
           /\ Len(s) \in Nat /\ Len(t) \in Nat /\ Len(s \o t) = Len(s) + Len(t)
           /\ \A k \in 1..Len(s) : k \in 1..Len(s \o t) /\ (s \o t)[k] = s[k]
           /\ \A k \in 1..Len(t) : Len(s) + k \in 1..Len(s \o t) /\ (s \o t)[Len(s) + k] = t[k]
           /\ \A k \in 1..Len(s \o t) : \/ k \in 1..Len(s)
                                        \/ k - Len(s) \in 1..Len(t) /\ k > Len(s)
                                           /\ (s \o t)[k] = t[k - Len(s)]
BY ConcatProperties, LenProperties

LEMMA ConcatAppend ==
    ASSUME NEW s \in Seq(Lines), NEW t \in Seq(Lines), NEW l \in Lines
    PROVE  s \o Append(t, l) = Append(s \o t, l)
<1>1. Append(t, l) \in Seq(Lines) /\ s \o t \in Seq(Lines) /\ Len(Append(t, l)) = Len(t) + 1
  OBVIOUS
<1>2. /\ s \o Append(t, l) \in Seq(Lines) /\ Append(s \o t, l) \in Seq(Lines)
      /\ Len(s \o Append(t, l)) = Len(Append(s \o t, l))
  BY <1>1
<1>3. \A k \in 1..Len(s \o Append(t, l)) : (s \o Append(t, l))[k] = Append(s \o t, l)[k]
  BY <1>1, <1>2
<1> QED
  BY <1>2, <1>3, SeqEqual

LEMMA AppendFollows ==
    ASSUME NEW s \in Seq(Lines), ResultsFollow(s), NEW l \in Lines,
           l.half = "action" => \A k \in 1..Len(s) : s[k].id = l.id => s[k].half = "action"
    PROVE  ResultsFollow(Append(s, l))
<1> DEFINE t == Append(s, l)
<1>1. /\ Len(s) \in Nat /\ Len(t) = Len(s) + 1 /\ t[Len(s) + 1] = l
      /\ \A k \in 1..Len(s) : t[k] = s[k]
      /\ LinesOf(t) = LinesOf(s) \cup {l}
  BY LinesOfSeq
<1> HIDE DEF t
<1> SUFFICES ASSUME NEW k \in 1..Len(t), t[k].half # "action",
                    LineOf(t[k].id, "action") \in LinesOf(t)
             PROVE  \E j \in 1..(k - 1) : t[j] = LineOf(t[k].id, "action")
  BY DEF ResultsFollow, t
<1>2. CASE k \in 1..Len(s)
  <2>1. t[k] = s[k]
    BY <1>1, <1>2
  <2>2. LineOf(s[k].id, "action") # l
    BY <1>2, <2>1 DEF LineOf
  <2>3. PICK j \in 1..(k - 1) : s[j] = LineOf(s[k].id, "action")
    BY <1>1, <1>2, <2>1, <2>2 DEF ResultsFollow
  <2> QED
    BY <1>1, <1>2, <2>1, <2>3
<1>3. CASE k = Len(s) + 1
  <2>1. t[k] = l /\ LineOf(l.id, "action") # l
    BY <1>1, <1>3 DEF LineOf
  <2>2. PICK j \in 1..Len(s) : s[j] = LineOf(l.id, "action")
    BY <1>1, <2>1 DEF LinesOf
  <2> QED
    BY <1>1, <1>3, <2>1, <2>2
<1> QED
  BY <1>1, <1>2, <1>3

(* A prefix of what is in order is in order, and so is a sequence that is  *)
(* followed by lines of its own that are in order.                         *)
LEMMA ConcatFollows ==
    ASSUME NEW s \in Seq(Lines), NEW t \in Seq(Lines), ResultsFollow(s \o t)
    PROVE  /\ ResultsFollow(s)
           /\ ResultsFollow(t) => ResultsFollow((s \o t) \o t)
<1> DEFINE u == s \o t
<1>1. /\ u \in Seq(Lines) /\ Len(s) \in Nat /\ Len(u) \in Nat
      /\ \A k \in 1..Len(s) : k \in 1..Len(u) /\ u[k] = s[k]
      /\ LinesOf(u) = LinesOf(s) \cup LinesOf(t) /\ LinesOf(u \o t) = LinesOf(u)
      /\ ResultsFollow(u)
  <2>1. u \in Seq(Lines) /\ LinesOf(u) = LinesOf(s) \cup LinesOf(t)
    BY LinesOfSeq, ConcatIs
  <2>2. LinesOf(u \o t) = LinesOf(u) \cup LinesOf(t)
    BY <2>1, LinesOfSeq
  <2> QED
    BY <2>1, <2>2, ConcatIs
<1>2. /\ \A k \in 1..Len(u) : k \in 1..Len(u \o t) /\ (u \o t)[k] = u[k]
      /\ \A k \in 1..Len(t) : (u \o t)[Len(u) + k] = t[k]
      /\ \A k \in 1..Len(u \o t) : \/ k \in 1..Len(u)
                                   \/ k - Len(u) \in 1..Len(t) /\ k > Len(u)
                                      /\ (u \o t)[k] = t[k - Len(u)]
  BY <1>1, ConcatIs
<1> HIDE DEF u
<1>3. ResultsFollow(s)
  <2> SUFFICES ASSUME NEW k \in 1..Len(s), s[k].half # "action",
                      LineOf(s[k].id, "action") \in LinesOf(s)
               PROVE  \E j \in 1..(k - 1) : s[j] = LineOf(s[k].id, "action")
    BY DEF ResultsFollow
  <2>1. PICK j \in 1..(k - 1) : u[j] = LineOf(u[k].id, "action")
    BY <1>1 DEF ResultsFollow
  <2> QED
    BY <1>1, <2>1
<1>4. ASSUME ResultsFollow(t) PROVE ResultsFollow(u \o t)
  <2> SUFFICES ASSUME NEW k \in 1..Len(u \o t), (u \o t)[k].half # "action",
                      LineOf((u \o t)[k].id, "action") \in LinesOf(u)
               PROVE  \E j \in 1..(k - 1) : (u \o t)[j] = LineOf((u \o t)[k].id, "action")
    BY <1>1 DEF ResultsFollow
  <2>1. CASE k \in 1..Len(u)
    <3>1. PICK j \in 1..(k - 1) : u[j] = LineOf(u[k].id, "action")
      BY <1>1, <1>2, <2>1 DEF ResultsFollow
    <3>2. j \in 1..Len(u)
      BY <1>1, <2>1
    <3> QED
      BY <1>2, <2>1, <3>1, <3>2
  <2>2. CASE k > Len(u)
    <3>1. PICK j \in 1..Len(u) : u[j] = LineOf((u \o t)[k].id, "action")
      BY DEF LinesOf
    <3>2. j \in 1..(k - 1) /\ (u \o t)[j] = u[j]
      BY <1>1, <1>2, <2>2
    <3> QED
      BY <3>1, <3>2
  <2> QED
    BY <1>2, <2>1, <2>2
<1> QED
  BY <1>3, <1>4 DEF u

LEMMA NextOrder ==
    TypeOK /\ HostsInv /\ LogsInv /\ OrderInv /\ [Next]_vars => OrderInv'
<1> SUFFICES ASSUME TypeOK, HostsInv, LogsInv, OrderInv, [Next]_vars PROVE OrderInv'
  OBVIOUS
<1>1. log \in [Dates -> Seq(Lines)] /\ sealedLog \in [Dates -> Seq(Lines)]
  BY DEF TypeOK, SealTypeOK
<1>2. ASSUME SameLogs PROVE OrderInv'
  BY <1>2 DEF OrderInv, SameLogs
<1>3. ASSUME NEW i \in Invs, NEW h \in {"action", "success", "error"},
             log' = [log EXCEPT ![DayOf[i]] = Append(@, LineOf(i, h))], sealedLog' = sealedLog,
             h = "action" => host[i] = "new"
      PROVE  OrderInv'
  <2> DEFINE l == LineOf(i, h)
  <2>1. l \in Lines /\ l.half = h /\ l.id = i
    BY DEF Lines, LineOf
  <2>2. ASSUME h = "action", NEW k \in Lines, k \in written, k.id = i PROVE k.half = "action"
    <3>1. host[i] # "over"
      BY <1>3, <2>2
    <3>2. k = LineOf(i, k.half) /\ k.half \in {"action", "success", "error"}
      BY <2>2 DEF Lines, LineOf
    <3> QED
      BY <2>2, <3>1, <3>2 DEF HostsInv, HostTrue
  <2> SUFFICES ASSUME NEW d \in Dates
               PROVE  ResultsFollow(log'[d]) /\ ResultsFollow(sealedLog'[d] \o log'[d])
    BY DEF OrderInv
  <2>3. /\ ResultsFollow(log[d]) /\ ResultsFollow(sealedLog[d] \o log[d])
        /\ log[d] \in Seq(Lines) /\ sealedLog[d] \in Seq(Lines)
        /\ sealedLog[d] \o log[d] \in Seq(Lines)
    BY <1>1, ConcatIs DEF OrderInv
  <2>4. /\ \A k \in 1..Len(log[d]) : log[d][k] \in written
        /\ \A k \in 1..Len(sealedLog[d] \o log[d]) : (sealedLog[d] \o log[d])[k] \in written
    <3>1. LogTrue(written, log[d], d) /\ LogTrue(written, sealedLog[d] \o log[d], d)
      BY <2>3, LogTrueKept DEF LogsInv
    <3> QED
      BY <3>1 DEF LogTrue
  <2>5. CASE d # DayOf[i]
    BY <1>1, <1>3, <2>3, <2>5
  <2>6. CASE d = DayOf[i]
    <3>1. log'[d] = Append(log[d], l)
      BY <1>1, <1>3, <2>6
    <3>2. sealedLog'[d] \o log'[d] = Append(sealedLog[d] \o log[d], l)
      <4>1. l \in Lines /\ log[d] \in Seq(Lines) /\ sealedLog[d] \in Seq(Lines)
        BY <2>1, <2>3
      <4> HIDE DEF l
      <4>2. sealedLog[d] \o Append(log[d], l) = Append(sealedLog[d] \o log[d], l)
        BY ZenonT(30), <4>1, ConcatAppend
      <4> QED
        BY <1>3, <3>1, <4>2
    <3>3. ASSUME NEW s \in Seq(Lines), \A k \in 1..Len(s) : s[k] \in written, ResultsFollow(s)
          PROVE  ResultsFollow(Append(s, l))
      <4>1. \A k \in 1..Len(s) : s[k] \in Lines
        OBVIOUS
      <4>2. l.half = "action" => \A k \in 1..Len(s) : s[k].id = l.id => s[k].half = "action"
        BY <2>1, <2>2, <3>3, <4>1
      <4> HIDE DEF l
      <4> QED
        BY <2>1, <3>3, <4>2, AppendFollows
    <3> QED
      BY <2>3, <2>4, <3>1, <3>2, <3>3
  <2> QED
    BY <2>5, <2>6
<1>4. ASSUME NEW i \in Invs, HostSteps(i) PROVE OrderInv'
  <2>1. CASE HostStores(i) \/ HostArchives(i)
    BY <1>2, <2>1, ArchiveMoves DEF HostStores, SameLogs
  <2>2. CASE HostLogs(i)
    BY <1>3, <2>2 DEF HostLogs, AppendLine, LineOf
  <2>3. CASE HostResult(i)
    BY <1>3, <2>3 DEF HostResult, AppendLine, LineOf
  <2> QED
    BY <1>4, <2>1, <2>2, <2>3 DEF HostSteps
<1>5. CASE Seals
  <2> SUFFICES ASSUME NEW d \in Dates
               PROVE  ResultsFollow(log'[d]) /\ ResultsFollow(sealedLog'[d] \o log'[d])
    BY DEF OrderInv
  <2>1. /\ ResultsFollow(log[d]) /\ ResultsFollow(sealedLog[d] \o log[d])
        /\ log[d] \in Seq(Lines) /\ sealedLog[d] \in Seq(Lines)
    BY <1>1 DEF OrderInv
  <2>2. /\ ResultsFollow(sealedLog[d])
        /\ ResultsFollow((sealedLog[d] \o log[d]) \o log[d])
    BY <2>1, ConcatFollows
  <2>3. /\ ResultsFollow(<<>>) /\ sealedLog[d] \o <<>> = sealedLog[d]
        /\ log[d] \o <<>> = log[d]
    BY <2>1 DEF ResultsFollow
  <2> QED
    BY <1>5, <2>1, <2>2, <2>3, SealersMoveLogs DEF LogsMove
<1> QED
  BY <1>2, <1>4, <1>5, KindsOfSteps
  DEF HostFails, ManifestGoes, DayEnds, Rebuilds, SealFails, Idles, SameArchive

(***************************************************************************)
(* A replay of paired lines.  Every line ahead is there once; the action   *)
(* of a result is not ahead any more when the result is read, and waits    *)
(* for it.                                                                 *)
(***************************************************************************)
Results == {"success", "error"}

Once(r) ==
    /\ \A j, k \in 1..Len(r.lines) : r.lines[j] = r.lines[k] => j = k
    /\ \A f \in r.files : LinesOf(r.lines) \cap LinesOf(Content(f)) = {}

ActionGone(r) ==
    \A k \in 1..Len(r.lines) : r.lines[k].half # "action" =>
        /\ \A j \in k..Len(r.lines) : r.lines[j] # LineOf(r.lines[k].id, "action")
        /\ \A f \in r.files : LineOf(r.lines[k].id, "action") \notin LinesOf(Content(f))

Waiting(i, A) ==
    /\ LineOf(i, "action") \in OnDisk \ A
    /\ \E h \in Results : LineOf(i, h) \in A

Untouched(i, A) ==
    LineOf(i, "action") \in A
        => \A h \in Results : LineOf(i, h) \in OnDisk => LineOf(i, h) \in A

Exact(r) ==
    /\ ~r.skipped /\ Once(r) /\ ActionGone(r)
    /\ Ahead(r) \subseteq OnDisk
    /\ \A i \in Invs : (i \in r.pending <=> Waiting(i, Ahead(r))) /\ Untouched(i, Ahead(r))

ExitInv ==
    /\ Fresh(reb)
    /\ reb.quiet /\ Paired =>
       /\ reb.pc = "collect_log" => reb.files = ArchiveFiles
       /\ reb.pc = "replay" => Exact(reb)
       /\ reb.pc \in {"rehydrate", "done"} => ~reb.skipped

(* What Paired says of the invocations: each has both its lines.           *)
LEMMA PairedLines ==
    ASSUME TypeOK, HostsInv, LogsInv, Paired, NEW i \in Invs
    PROVE  /\ \A h \in {"action"} \cup Results : LineOf(i, h) \in OnDisk
                 => /\ LineOf(i, "action") \in OnDisk
                    /\ \E g \in Results : LineOf(i, g) \in OnDisk
           /\ LineOf(i, "success") \notin OnDisk \/ LineOf(i, "error") \notin OnDisk
<1>1. /\ log \in [Dates -> Seq(Lines)] /\ sealedLog \in [Dates -> Seq(Lines)]
      /\ OnDisk = UNION {LinesOf(sealedLog[d] \o log[d]) : d \in Dates}
  <2>1. log \in [Dates -> Seq(Lines)] /\ sealedLog \in [Dates -> Seq(Lines)]
    BY DEF TypeOK, SealTypeOK
  <2>2. \A d \in Dates : LinesOf(sealedLog[d] \o log[d])
                            = LinesOf(log[d]) \cup LinesOf(sealedLog[d])
    BY <2>1, LinesOfSeq
  <2> QED
    BY <2>1, <2>2 DEF OnDisk
<1>2. ASSUME NEW h \in {"action"} \cup Results, LineOf(i, h) \in OnDisk
      PROVE  /\ LineOf(i, "action") \in OnDisk
             /\ \E g \in Results : LineOf(i, g) \in OnDisk
  <2>1. PICK d \in Dates : LineOf(i, h) \in LinesOf(sealedLog[d] \o log[d])
    BY <1>1, <1>2
  <2> DEFINE s == sealedLog[d] \o log[d]
  <2>2. /\ [id |-> LineOf(i, h).id, half |-> "action"] \in LinesOf(s)
        /\ \E r \in LinesOf(s) : r.id = LineOf(i, h).id /\ r.half # "action"
    BY Zenon, <2>1 DEF Paired
  <2>3. PICK r \in LinesOf(s) : r.id = LineOf(i, h).id /\ r.half # "action"
    BY <2>2
  <2>4. s \in Seq(Lines)
    BY <1>1, ConcatIs
  <2> HIDE DEF s
  <2>5. r \in Lines
    BY <2>3, <2>4 DEF LinesOf
  <2>6. LineOf(i, h).id = i
    BY DEF LineOf
  <2>7. r = LineOf(i, r.half) /\ r.half \in Results
    BY <2>3, <2>5, <2>6 DEF Lines, LineOf, Results
  <2>8. LineOf(i, "action") \in LinesOf(s)
    BY <2>2, <2>6 DEF LineOf
  <2>9. LinesOf(s) \subseteq OnDisk
    BY <1>1 DEF s
  <2> QED
    BY <2>3, <2>7, <2>8, <2>9
<1>3. OnDisk \subseteq written
  BY DEF OnDisk, LogsInv, LogTrue, LinesOf
<1>4. LineOf(i, "success") \notin written \/ LineOf(i, "error") \notin written
  BY DEF HostsInv, HostTrue
<1> QED
  BY <1>2, <1>3, <1>4

(* The line that is read is not skipped, and leaves the rest as exact.     *)
LEMMA ReadsExact ==
    ASSUME TypeOK, HostsInv, LogsInv, Paired, Exact(reb), NEW l \in Lines, Reads(l)
    PROVE  Exact(reb')
<1> DEFINE A == Ahead(reb)  B == Ahead(reb')  i == l.id  s == reb.lines  t == Tail(reb.lines)
<1>1. /\ reb \in RebStates /\ s \in Seq(Lines) /\ s # <<>> /\ l = s[1]
      /\ i \in Invs /\ l = LineOf(i, l.half) /\ l.half \in {"action"} \cup Results
      /\ reb.skipped \in BOOLEAN
  BY DEF TypeOK, RebStates, Lines, LineOf, Results, Reads
<1>2. /\ Len(s) \in Nat \ {0} /\ Len(t) = Len(s) - 1
      /\ \A k \in 1..Len(t) : k + 1 \in 1..Len(s) /\ t[k] = s[k + 1]
  BY <1>1
<1>3. l \in LinesOf(s) /\ LinesOf(s) = {l} \cup LinesOf(reb'.lines) /\ A = {l} \cup B
  BY AheadOfTail
<1>4. reb'.lines = t /\ reb'.files = reb.files
  BY DEF Reads
<1>5. l \notin B
  <2>1. l \notin LinesOf(t)
    <3>1. \A k \in 1..Len(t) : t[k] # l
      BY <1>1, <1>2 DEF Exact, Once
    <3> QED
      BY <3>1 DEF LinesOf
  <2>2. \A f \in reb.files : l \notin LinesOf(Content(f))
    BY <1>3 DEF Exact, Once
  <2> QED
    BY <1>4, <2>1, <2>2 DEF Ahead
<1>6. Once(reb')
  <2>1. \A j, k \in 1..Len(t) : t[j] = t[k] => j = k
    <3> SUFFICES ASSUME NEW j \in 1..Len(t), NEW k \in 1..Len(t), t[j] = t[k] PROVE j = k
      OBVIOUS
    <3>1. j + 1 = k + 1
      BY <1>2 DEF Exact, Once
    <3> QED
      BY <3>1
  <2> QED
    BY <1>3, <1>4, <2>1 DEF Exact, Once
<1>7. ActionGone(reb')
  <2> SUFFICES ASSUME NEW k \in 1..Len(t), t[k].half # "action"
               PROVE  /\ \A j \in k..Len(t) : t[j] # LineOf(t[k].id, "action")
                      /\ \A f \in reb.files : LineOf(t[k].id, "action") \notin LinesOf(Content(f))
    BY <1>4 DEF ActionGone
  <2>1. /\ \A j \in (k + 1)..Len(s) : s[j] # LineOf(s[k + 1].id, "action")
        /\ \A f \in reb.files : LineOf(s[k + 1].id, "action") \notin LinesOf(Content(f))
        /\ t[k] = s[k + 1]
    BY <1>2 DEF Exact, ActionGone
  <2>2. \A j \in k..Len(t) : j + 1 \in (k + 1)..Len(s) /\ t[j] = s[j + 1]
    BY <1>2
  <2> QED
    BY <2>1, <2>2
<1>8. CASE l.half = "action"
  <2>1. Waiting(i, B)
    <3>1. l \in OnDisk
      BY <1>3 DEF Exact
    <3>2. PICK g \in Results : LineOf(i, g) \in OnDisk
      BY <1>1, <1>8, <3>1, PairedLines
    <3>3. LineOf(i, g) \in A /\ LineOf(i, g) # l
      BY <1>1, <1>3, <1>8, <3>2, LinesDiffer DEF Exact, Untouched, Results
    <3> QED
      BY <1>1, <1>3, <1>5, <1>8, <3>1, <3>2, <3>3 DEF Waiting
  <2>2. i \notin reb.pending
    BY <1>1, <1>3, <1>8 DEF Exact, Waiting
  <2>3. reb'.pending = reb.pending \cup {i} /\ ~reb'.skipped
    BY <1>1, <1>8, <2>2 DEF Reads, Skips, Exact
  <2>4. ASSUME NEW j \in Invs
        PROVE  (j \in reb'.pending <=> Waiting(j, B)) /\ Untouched(j, B)
    <3>1. \A h : LineOf(j, h) = l <=> j = i /\ h = "action"
      BY <1>1, <1>8, LinesDiffer
    <3>2. CASE j = i
      BY <1>1, <1>5, <1>8, <2>1, <2>3, <3>2 DEF Untouched
    <3>3. CASE j # i
      <4>1. \A h : LineOf(j, h) \in A <=> LineOf(j, h) \in B
        BY <1>3, <3>1, <3>3
      <4>2. (j \in reb.pending <=> Waiting(j, A)) /\ Untouched(j, A)
        BY DEF Exact
      <4>3. (Waiting(j, A) <=> Waiting(j, B)) /\ (Untouched(j, A) <=> Untouched(j, B))
        BY <4>1 DEF Waiting, Untouched
      <4> QED
        BY <2>3, <3>3, <4>2, <4>3
    <3> QED
      BY <3>2, <3>3
  <2> QED
    BY <1>3, <1>6, <1>7, <2>3, <2>4 DEF Exact
<1>9. CASE l.half \in Results
  <2>1. l \in OnDisk /\ l \in A
    BY <1>3 DEF Exact
  <2>2. LineOf(i, "action") \in OnDisk \ A
    <3>1. LineOf(i, "action") \in OnDisk
      BY <1>1, <2>1, PairedLines
    <3>2. /\ \A j \in 1..Len(s) : s[j] # LineOf(i, "action")
          /\ \A f \in reb.files : LineOf(i, "action") \notin LinesOf(Content(f))
      <4>1. l.half # "action" /\ 1 \in 1..Len(s)
        BY <1>2, <1>9 DEF Results
      <4> QED
        BY <1>1, <4>1 DEF Exact, ActionGone
    <3> QED
      BY <3>1, <3>2 DEF Ahead, LinesOf
  <2>3. i \in reb.pending
    BY <1>1, <1>9, <2>1, <2>2 DEF Exact, Waiting
  <2>4. reb'.pending = reb.pending \ {i} /\ ~reb'.skipped
    BY <1>1, <1>9, <2>3 DEF Reads, Skips, Exact, Results
  <2>5. \A h \in Results : LineOf(i, h) \notin B
    <3> SUFFICES ASSUME NEW h \in Results, LineOf(i, h) \in B PROVE FALSE
      OBVIOUS
    <3>1. LineOf(i, h) \in OnDisk /\ LineOf(i, h) # l
      BY <1>3, <1>5 DEF Exact
    <3>2. h # l.half
      BY <1>1, <3>1
    <3> QED
      BY <1>1, <1>9, <2>1, <3>1, <3>2, PairedLines DEF Results
  <2>6. ASSUME NEW j \in Invs
        PROVE  (j \in reb'.pending <=> Waiting(j, B)) /\ Untouched(j, B)
    <3>1. CASE j = i
      BY <1>3, <2>2, <2>4, <2>5, <3>1 DEF Waiting, Untouched
    <3>2. CASE j # i
      <4>1. \A h : LineOf(j, h) \in A <=> LineOf(j, h) \in B
        BY <1>1, <1>3, <3>2, LinesDiffer
      <4>2. (j \in reb.pending <=> Waiting(j, A)) /\ Untouched(j, A)
        BY DEF Exact
      <4>3. (Waiting(j, A) <=> Waiting(j, B)) /\ (Untouched(j, A) <=> Untouched(j, B))
        BY <4>1 DEF Waiting, Untouched
      <4> QED
        BY <2>4, <3>2, <4>2, <4>3
    <3> QED
      BY <3>1, <3>2
  <2> QED
    BY <1>3, <1>6, <1>7, <2>4, <2>6 DEF Exact
<1> QED
  BY <1>1, <1>8, <1>9

(* Opening a file of paired lines.  The sealed log of a day is opened      *)
(* before the one that is still in LOG_DIR.                                *)
LEMMA OpensExact ==
    ASSUME TypeOK, LogsInv, OrderInv, Paired, Exact(reb),
           NEW f \in Dates \X Sources, Opens(f)
    PROVE  Exact(reb')
<1> DEFINE d == f[1]  s == sealedLog[d]  t == log[d]  u == s \o t
<1>1. /\ reb.files \subseteq Dates \X Sources /\ d \in Dates
      /\ f[2] \in Sources
      /\ s \in Seq(Lines) /\ t \in Seq(Lines)
  BY DEF TypeOK, SealTypeOK
<1>2. /\ u \in Seq(Lines) /\ Len(s) \in Nat /\ Len(t) \in Nat /\ Len(u) = Len(s) + Len(t)
      /\ \A k \in 1..Len(s) : k \in 1..Len(u) /\ u[k] = s[k]
      /\ \A k \in 1..Len(t) : Len(s) + k \in 1..Len(u) /\ u[Len(s) + k] = t[k]
      /\ LinesOf(u) = LinesOf(s) \cup LinesOf(t)
  BY <1>1, ConcatIs, LinesOfSeq
<1>3. \A j, k \in 1..Len(u) : u[j] = u[k] => j = k
  BY <1>1 DEF Paired
<1>4. ResultsFollow(u) /\ ResultsFollow(t)
  BY <1>1 DEF OrderInv
<1> HIDE DEF d, s, t, u
<1>5. LinesOf(s) \cap LinesOf(t) = {}
  <2> SUFFICES ASSUME NEW j \in 1..Len(s), NEW k \in 1..Len(t), s[j] = t[k] PROVE FALSE
    BY DEF LinesOf
  <2>1. j = Len(s) + k
    BY <1>2, <1>3
  <2> QED
    BY <1>2, <2>1
<1>6. /\ \A j, k \in 1..Len(s) : s[j] = s[k] => j = k
      /\ \A j, k \in 1..Len(t) : t[j] = t[k] => j = k
  <2>1. \A j, k \in 1..Len(s) : s[j] = s[k] => j = k
    BY <1>2, <1>3
  <2>2. ASSUME NEW j \in 1..Len(t), NEW k \in 1..Len(t), t[j] = t[k] PROVE j = k
    <3>1. /\ Len(s) + j \in 1..Len(u) /\ Len(s) + k \in 1..Len(u)
          /\ u[Len(s) + j] = u[Len(s) + k]
      BY <1>2, <2>2
    <3>2. Len(s) + j = Len(s) + k
      BY <1>3, <3>1
    <3> QED
      BY <1>2, <3>2
  <2> QED
    BY <2>1, <2>2
<1>7. /\ f \in reb.files /\ reb'.files = reb.files \ {f} /\ reb'.lines = Content(f)
      /\ reb.lines = <<>> /\ reb'.pending = reb.pending /\ reb'.skipped = reb.skipped
      /\ \A g \in reb.files \ {f} : Before(f, g)
  BY DEF Opens
<1>8. Ahead(reb') = Ahead(reb)
  BY <1>7 DEF Ahead, LinesOf
<1>9. Content(f) = s \/ Content(f) = t
  BY DEF Content, d, s, t
<1>10. ASSUME NEW g \in reb.files \ {f}, NEW l \in LinesOf(Content(g)), DayOf[l.id] = d
       PROVE  Content(f) = s /\ Content(g) = t
  <2>1. g[1] \in Dates /\ g \in Dates \X Sources
    BY <1>1
  <2>2. DayOf[l.id] = g[1]
    BY <2>1 DEF LogsInv, LogTrue, Content, LinesOf
  <2>3. d \in Nat /\ g[1] = d /\ Before(f, g)
    BY <1>1, <1>7, <1>10, <2>2, DatesAreNumbers DEF d
  <2> QED
    BY <2>3 DEF Before, Content, d, s, t
<1>11. \A l \in LinesOf(s) \cup LinesOf(t) : DayOf[l.id] = d
  BY <1>1 DEF LogsInv, LogTrue, LinesOf, d, s, t
<1>12. Once(reb')
  <2>1. \A g \in reb.files \ {f} : LinesOf(Content(f)) \cap LinesOf(Content(g)) = {}
    <3> SUFFICES ASSUME NEW g \in reb.files \ {f}, NEW l \in LinesOf(Content(g)),
                        l \in LinesOf(Content(f))
                 PROVE  FALSE
      OBVIOUS
    <3>1. DayOf[l.id] = d
      BY <1>9, <1>11
    <3> QED
      BY <1>5, <1>10, <3>1
  <2> QED
    BY <1>6, <1>7, <1>9, <2>1 DEF Once
<1>13. ActionGone(reb')
  <2> SUFFICES ASSUME NEW k \in 1..Len(Content(f)), Content(f)[k].half # "action"
               PROVE  LET a == LineOf(Content(f)[k].id, "action") IN
                      /\ \A j \in k..Len(Content(f)) : Content(f)[j] # a
                      /\ \A g \in reb.files \ {f} : a \notin LinesOf(Content(g))
    BY <1>7 DEF ActionGone
  <2> DEFINE a == LineOf(Content(f)[k].id, "action")
  <2>1. a.id = Content(f)[k].id /\ DayOf[a.id] = d
    <3>1. a.id = Content(f)[k].id
      BY DEF LineOf
    <3>2. Content(f)[k] \in LinesOf(s) \cup LinesOf(t)
      BY <1>9 DEF LinesOf
    <3> QED
      BY <1>11, <3>1, <3>2
  <2>2. CASE Content(f) = s
    <3>1. k \in 1..Len(u) /\ u[k] = s[k]
      BY <1>2, <2>2
    <3>2. a \in LinesOf(u) => \E j \in 1..(k - 1) : u[j] = a
      BY <1>4, <2>2, <3>1 DEF ResultsFollow
    <3>3. \A m \in k..Len(u) : u[m] # a
      <4> SUFFICES ASSUME NEW m \in k..Len(u), u[m] = a PROVE FALSE
        OBVIOUS
      <4>1. m \in 1..Len(u) /\ a \in LinesOf(u)
        BY <1>2, <3>1 DEF LinesOf
      <4>2. PICK j \in 1..(k - 1) : u[j] = a
        BY <3>2, <4>1
      <4>3. j \in 1..Len(u)
        BY <1>2, <3>1
      <4>4. j = m
        BY <1>3, <4>1, <4>2, <4>3
      <4> QED
        BY <3>1, <4>4
    <3>4. \A j \in k..Len(s) : s[j] # a
      BY <1>2, <2>2, <3>3
    <3>5. a \notin LinesOf(t)
      <4> SUFFICES ASSUME NEW j \in 1..Len(t), t[j] = a PROVE FALSE
        BY DEF LinesOf
      <4>1. Len(s) + j \in k..Len(u) /\ u[Len(s) + j] = a
        BY <1>2, <2>2
      <4> QED
        BY <3>3, <4>1
    <3> QED
      BY <1>10, <2>1, <2>2, <3>4, <3>5
  <2>3. CASE Content(f) = t /\ Content(f) # s
    <3>1. \A j \in k..Len(t) : t[j] # a
      <4> SUFFICES ASSUME NEW m \in k..Len(t), t[m] = a PROVE FALSE
        OBVIOUS
      <4>1. k \in 1..Len(t) /\ m \in 1..Len(t) /\ a \in LinesOf(t)
        BY <1>2, <2>3 DEF LinesOf
      <4>2. PICK j \in 1..(k - 1) : t[j] = a
        BY <1>4, <2>3, <4>1 DEF ResultsFollow
      <4>3. j \in 1..Len(t)
        BY <1>2, <4>1
      <4>4. j = m
        BY <1>6, <4>1, <4>2, <4>3
      <4> QED
        BY <4>1, <4>4
    <3> QED
      BY <1>10, <2>1, <2>3, <3>1
  <2> QED
    BY <1>9, <2>2, <2>3
<1> QED
  BY <1>7, <1>8, <1>12, <1>13 DEF Exact

LEMMA RebuildExit ==
    ASSUME TypeOK, HostsInv, LogsInv, OrderInv, ExitInv, Rebuilds
    PROVE  ExitInv'
<1>1. reb \in RebStates /\ SameLogs
  BY DEF TypeOK, RebStates, Rebuilds, SameArchive
<1>2. OnDisk' = OnDisk /\ Ahead(reb)' = Ahead(reb') /\ (Paired' <=> Paired)
  BY <1>1 DEF OnDisk, Ahead, Content, Paired, SameLogs
<1>3. /\ Once(reb)' <=> Once(reb')
      /\ ActionGone(reb)' <=> ActionGone(reb')
      /\ Fresh(reb)' <=> Fresh(reb')
  BY <1>1 DEF Once, ActionGone, Fresh, Content, SameLogs
<1>4. \A i \in Invs : /\ Waiting(i, Ahead(reb))' <=> Waiting(i, Ahead(reb'))
                      /\ Untouched(i, Ahead(reb))' <=> Untouched(i, Ahead(reb'))
  BY <1>2 DEF Waiting, Untouched
<1>5. Exact(reb)' <=> Exact(reb')
  BY <1>2, <1>3, <1>4 DEF Exact
<1>6. CASE ~reb'.quiet /\ Fresh(reb')
  BY <1>3, <1>6 DEF ExitInv
<1>7. CASE reb'.pc = "drop" /\ Fresh(reb')
  BY <1>3, <1>7 DEF ExitInv
<1> USE DEF SameReplay, Dropping
<1>8. ASSUME reb'.quiet = reb.quiet, DropsSome \/ DropsLast PROVE ExitInv'
  BY <1>8 DEF ExitInv, Fresh, DropsSome, DropsLast
<1>14. ASSUME reb'.quiet = reb.quiet, ListsArchive PROVE ExitInv'
  <2>1. ArchiveFiles' = ArchiveFiles
    BY <1>1 DEF ArchiveFiles, SameLogs
  <2> QED
    BY <1>14, <2>1 DEF ExitInv, Fresh, ListsArchive
<1>9. ASSUME reb'.quiet = reb.quiet, ListsLogDir, reb.quiet, Paired PROVE ExitInv'
  <2>1. /\ Fresh(reb)' /\ reb'.pc = "replay" /\ reb'.lines = <<>> /\ reb'.pending = {}
        /\ ~reb'.skipped /\ reb'.files = LogFiles /\ LinesOf(reb'.lines) = {}
    BY <1>9 DEF ListsLogDir, Fresh, ExitInv, LinesOf, LogFiles
  <2>2. Ahead(reb') = OnDisk
    <3>1. Ahead(reb') = UNION {LinesOf(Content(f)) : f \in LogFiles}
      BY <2>1 DEF Ahead
    <3>2. \A f \in LogFiles : LinesOf(Content(f)) \subseteq OnDisk
      BY OnDiskTyped
    <3> QED
      BY <3>1, <3>2, OnDiskTyped
  <2>3. Exact(reb')
    BY <2>1, <2>2 DEF Exact, Once, ActionGone, Waiting, Untouched
  <2> QED
    BY <1>5, <2>1, <2>3 DEF ExitInv
<1>15. ASSUME reb'.quiet = reb.quiet, ListsLogDir, ~(reb.quiet /\ Paired) PROVE ExitInv'
  BY <1>2, <1>15 DEF ListsLogDir, Fresh, ExitInv
<1>10. ASSUME reb'.quiet = reb.quiet, Finishes PROVE ExitInv'
  <2>1. Fresh(reb)' /\ reb'.pc \in {"rehydrate", "done"}
    BY <1>10 DEF Finishes, Fresh
  <2>2. Ahead(reb) = {}
    BY <1>10 DEF Finishes, Ahead, LinesOf
  <2>3. ASSUME Exact(reb) PROVE ~reb'.skipped
    <3>1. reb.pending = {}
      BY <1>1, <2>2, <2>3 DEF Exact, Waiting, RebStates
    <3> QED
      BY <1>10, <2>3, <3>1 DEF Exact, Finishes
  <2> QED
    BY <1>2, <1>10, <2>1, <2>3 DEF ExitInv, Finishes
<1>11. ASSUME reb'.quiet = reb.quiet, Walks PROVE ExitInv'
  BY <1>2, <1>11 DEF ExitInv, Walks, Fresh
<1>12. ASSUME reb'.quiet = reb.quiet, NEW f \in Dates \X Sources, Opens(f) PROVE ExitInv'
  <2>1. Fresh(reb)' /\ reb'.pc = "replay" /\ reb.pc = "replay"
    BY <1>12 DEF Opens, Fresh
  <2> QED
    BY <1>2, <1>5, <1>12, <2>1, OpensExact DEF ExitInv
<1>13. ASSUME reb'.quiet = reb.quiet, NEW l \in Lines, Reads(l) PROVE ExitInv'
  <2>1. Fresh(reb)' /\ reb'.pc = "replay" /\ reb.pc = "replay"
    BY <1>13 DEF Reads, Fresh
  <2> QED
    BY <1>2, <1>5, <1>13, <2>1, ReadsExact DEF ExitInv
<1> QED
  BY <1>6, <1>7, <1>8, <1>9, <1>10, <1>11, <1>12, <1>13, <1>14, <1>15, RebuildFields
  DEF Rebuilds

LEMMA NextExit ==
    TypeOK /\ HostsInv /\ LogsInv /\ OrderInv /\ ExitInv /\ [Next]_vars => ExitInv'
<1> SUFFICES ASSUME TypeOK, HostsInv, LogsInv, OrderInv, ExitInv, [Next]_vars PROVE ExitInv'
  OBVIOUS
<1>1. CASE Rebuilds
  BY <1>1, RebuildExit
<1>2. ASSUME reb' = reb, SameLogs PROVE ExitInv'
  <2>1. OnDisk' = OnDisk /\ Ahead(reb)' = Ahead(reb) /\ (Paired' <=> Paired)
    BY <1>2 DEF OnDisk, Ahead, Content, Paired, SameLogs
  <2>2. Exact(reb)' <=> Exact(reb)
    <3>1. /\ Once(reb)' <=> Once(reb)
          /\ ActionGone(reb)' <=> ActionGone(reb)
      BY <1>2 DEF Once, ActionGone, Content, SameLogs
    <3>2. \A i \in Invs : /\ Waiting(i, Ahead(reb))' <=> Waiting(i, Ahead(reb))
                          /\ Untouched(i, Ahead(reb))' <=> Untouched(i, Ahead(reb))
      BY <2>1 DEF Waiting, Untouched
    <3> QED
      BY <1>2, <2>1, <3>1, <3>2 DEF Exact
  <2> QED
    BY <1>2, <2>1, <2>2 DEF ExitInv, Fresh, ArchiveFiles, SameLogs
<1>3. CASE reb' = reb /\ reb.pc = "idle"
  BY <1>3 DEF ExitInv, Fresh, Dropping
<1>4. CASE ~reb'.quiet /\ (Fresh(reb) => Fresh(reb'))
  BY <1>4 DEF ExitInv, Fresh
<1> QED
  BY <1>1, <1>2, <1>3, <1>4, QuietSteps

LEMMA InitExit == Init => ExitInv
BY DEF Init, ExitInv, Fresh, IdleReb, Dropping

(***************************************************************************)
(* An undisturbed rebuild of logs in which each line is there once and     *)
(* each invocation has both its lines skips nothing, in whichever of the   *)
(* two files of its day a line is.                                         *)
(***************************************************************************)
THEOREM ExitCodeTrue == Spec => []ExitTrue
<1>1. ExitInv => ExitTrue
  BY DEF ExitInv, ExitTrue
<1> QED
  BY <1>1, InitType, NextType, InitHosts, NextHosts, InitLogs, NextLogs, InitOrder, NextOrder,
     InitExit, NextExit, PTL
  DEF Spec
=============================================================================
