-------------------------- MODULE Snapshots_proofs --------------------------
(***************************************************************************)
(* No snapshot is lost, and an event row that names the Downloads folder   *)
(* tells the truth: for any number of snapshots, days, invocations and     *)
(* failures, as long as no invocation is slow.                             *)
(***************************************************************************)
EXTENDS SnapshotProps, TLAPS

(***************************************************************************)
(* Type correctness.                                                       *)
(***************************************************************************)
WorkerPcs == {"idle", "remove", "copy", "protect", "update", "check",
              "insert", "unlink", "drop", "list", "lookup", "lock"}

LEMMA WorkerFields ==
    /\ \A ok \in BOOLEAN : [IdleWorker EXCEPT !.ok = ok] \in Worker
    /\ \A f \in Files : [IdleWorker EXCEPT !.pc = "remove", !.file = f,
                                           !.day = DayOf[f]] \in Worker
    /\ \A d \in Dates : [IdleWorker EXCEPT !.pc = "drop", !.day = d] \in Worker
    /\ \A w \in Worker :
         /\ \A pc \in WorkerPcs : [w EXCEPT !.pc = pc] \in Worker
         /\ w.day \in Dates /\ w.late \in BOOLEAN
         /\ w.names \in SUBSET Files /\ w.rows \in SUBSET Files
<1>1. 1 \in Dates
  BY LastDateAssumption DEF Dates
<1> QED
  BY <1>1, DayOfAssumption DEF IdleWorker, Worker, WorkerPcs

LEMMA StopTyped ==
    ASSUME NEW p \in Workers, NEW ok \in BOOLEAN,
           work \in [Workers -> Worker], Stop(p, ok)
    PROVE  work' \in [Workers -> Worker]
BY WorkerFields DEF Stop

LEMMA StartsTyped ==
    ASSUME NEW p \in Workers, NEW d \in Dates, NEW f \in Files,
           work \in [Workers -> Worker], StartMove(p, f) \/ StartManifest(p, d)
    PROVE  work' \in [Workers -> Worker]
BY WorkerFields DEF StartMove, StartManifest

LEMMA GotoTyped ==
    ASSUME NEW p \in Workers, NEW pc \in WorkerPcs,
           work \in [Workers -> Worker], Goto(p, pc)
    PROVE  work' \in [Workers -> Worker]
BY WorkerFields DEF Goto

LEMMA InitTyped == Init => TypeOK
<1> SUFFICES ASSUME Init
             PROVE  TypeOK
  OBVIOUS
<1>1. 1 \in Dates
  BY LastDateAssumption DEF Dates
<1>2. IdleWorker \in Worker
  BY <1>1 DEF IdleWorker, Worker
<1>3. MoveTypeOK
  BY <1>2 DEF Init, MoveInit, MoveTypeOK, NoManifest
<1> QED
  BY <1>1, <1>3 DEF Init, TypeOK, NoLog, IdleHost, IdleTick, Invocation, Tick

(* A worker that is moving a file has one.                                 *)
MovePcs == {"remove", "copy", "protect", "update", "check", "insert", "unlink"}

WorkTyped == \A p \in Workers : work[p].pc \in MovePcs => work[p].file \in Files

LEMMA WorkerTyped ==
    ASSUME MoveTypeOK, WorkTyped, NEW p \in Workers, WorkerRuns(p)
    PROVE  MoveTypeOK'
<1> DEFINE f == work[p].file
           d == work[p].day
<1>1. work \in [Workers -> Worker] /\ work[p] \in Worker /\ d \in Dates
  BY WorkerFields DEF MoveTypeOK
<1>2. work' \in [Workers -> Worker]
  <2>1. CASE RemoveOld(p) \/ UpdateDirectory(p) \/ InsertSnapshotRow(p)
             \/ DropManifest(p) \/ WriteManifest(p)
    BY <1>1, <2>1, GotoTyped
    DEF RemoveOld, UpdateDirectory, InsertSnapshotRow, DropManifest, WriteManifest,
        WorkerPcs
  <2>2. CASE Copy(p) \/ Protect(p) \/ LockManifest(p)
    <3>1. PICK ok \in BOOLEAN, pc \in WorkerPcs : Stop(p, ok) \/ Goto(p, pc)
      BY <2>2 DEF Copy, Protect, LockManifest, WorkerPcs
    <3> QED
      BY <1>1, <3>1, StopTyped, GotoTyped
  <2>3. CASE CheckSealed(p)
    BY <1>1, <2>3 DEF CheckSealed, Worker
  <2>4. CASE RemoveSource(p)
    <3>1. (f \in downloads) \in BOOLEAN
      OBVIOUS
    <3>3. Stop(p, f \in downloads) \/ StartManifest(p, d)
      BY <2>4 DEF RemoveSource
    <3>2. f \in Files
      BY <2>4 DEF RemoveSource, WorkTyped, MovePcs
    <3> QED
      BY <1>1, <3>1, <3>2, <3>3, StopTyped, StartsTyped
  <2>5. CASE ListDirectory(p)
    <3>1. Present(d) \in SUBSET Files
      BY DEF Present, OfDay
    <3> QED
      BY <1>1, <2>5, <3>1 DEF ListDirectory, Worker
  <2>6. CASE LookupRow(p)
    <3>1. PICK g \in work[p].names :
             work' = [work EXCEPT
                 ![p].names = work[p].names \ {g},
                 ![p].rows = IF LookupEvent(g) THEN work[p].rows \cup {g}
                             ELSE work[p].rows]
      BY <2>6 DEF LookupRow
    <3>2. g \in Files
      BY <1>1, WorkerFields
    <3> QED
      BY <1>1, <3>1, <3>2 DEF Worker
  <2> QED
    BY <2>1, <2>2, <2>3, <2>4, <2>5, <2>6 DEF WorkerRuns
<1>3. archive' \in [Files -> {"absent", "partial", "whole"}]
  <2>1. CASE UNCHANGED archive
    BY <2>1 DEF MoveTypeOK
  <2>2. CASE RemoveOld(p) \/ Copy(p)
    BY ZenonT(40), <2>2 DEF RemoveOld, Copy, MoveTypeOK
  <2> QED
    BY <2>1, <2>2
    DEF WorkerRuns, Protect, UpdateDirectory, CheckSealed, InsertSnapshotRow,
        RemoveSource, DropManifest, ListDirectory, LookupRow, WriteManifest,
        LockManifest
<1>4. place' \in [Files -> {"none", "downloads", "archive"}]
  <2>1. CASE UNCHANGED place
    BY <2>1 DEF MoveTypeOK
  <2>2. CASE UpdateDirectory(p)
    BY <2>2 DEF UpdateDirectory, MoveTypeOK
  <2> QED
    BY <2>1, <2>2
    DEF WorkerRuns, RemoveOld, Copy, Protect, CheckSealed, InsertSnapshotRow,
        RemoveSource, DropManifest, ListDirectory, LookupRow, WriteManifest,
        LockManifest
<1>6. downloads' \in SUBSET Files
  <2>1. CASE UNCHANGED downloads
    BY <2>1 DEF MoveTypeOK
  <2>2. CASE RemoveSource(p)
    BY <2>2 DEF RemoveSource, MoveTypeOK
  <2> QED
    BY <2>1, <2>2
    DEF WorkerRuns, RemoveOld, Copy, Protect, UpdateDirectory, CheckSealed,
        InsertSnapshotRow, DropManifest, ListDirectory, LookupRow, WriteManifest,
        LockManifest
<1>7. row' \in [Dates -> {"none", "open", "sealed"}]
  <2>1. CASE UNCHANGED row
    BY <2>1 DEF MoveTypeOK
  <2>2. CASE InsertSnapshotRow(p)
    BY <1>1, <2>2 DEF InsertSnapshotRow, InsertRow, MoveTypeOK
  <2> QED
    BY <2>1, <2>2
    DEF WorkerRuns, RemoveOld, Copy, Protect, UpdateDirectory, CheckSealed,
        RemoveSource, DropManifest, ListDirectory, LookupRow, WriteManifest,
        LockManifest
<1>5. manifest' \in [Dates -> [mode  : {"absent", "writable", "readonly"},
                               lists : SUBSET Files]]
  <2>1. CASE UNCHANGED manifest
    BY <2>1 DEF MoveTypeOK
  <2>2. CASE DropManifest(p) \/ WriteManifest(p) \/ LockManifest(p)
    <3>1. work[p].rows \in SUBSET Files
      BY <1>1, WorkerFields
    <3> QED
      BY <1>1, <2>2, <3>1
      DEF MoveTypeOK, DropManifest, NoManifest, WriteManifest, LockManifest
  <2> QED
    BY <2>1, <2>2
    DEF WorkerRuns, RemoveOld, Copy, Protect, UpdateDirectory, CheckSealed,
        InsertSnapshotRow, RemoveSource, ListDirectory, LookupRow
<1> QED
  BY <1>2, <1>3, <1>4, <1>5, <1>6, <1>7 DEF MoveTypeOK

LEMMA CutShortTyped ==
    ASSUME MoveTypeOK, WorkTyped, NEW p \in Workers, CutShort(p)
    PROVE  MoveTypeOK'
<1>1. work' \in [Workers -> Worker]
  BY StopTyped DEF CutShort, MoveTypeOK
<1>2. archive' \in [Files -> {"absent", "partial", "whole"}]
  BY DEF CutShort, MoveTypeOK
<1> QED
  BY <1>1, <1>2 DEF CutShort, MoveTypeOK

(***************************************************************************)
(* A step of a worker is its own, and it starts no move.                   *)
(***************************************************************************)
LEMMA WorkerSteps ==
    ASSUME MoveTypeOK, NEW p \in Workers, WorkerRuns(p) \/ CutShort(p)
    PROVE  /\ \A q \in Workers \ {p} : work'[q] = work[q]
           /\ work'[p].pc \in MovePcs =>
                work[p].pc \in MovePcs /\ work'[p].file = work[p].file
<1>1. work \in [Workers -> Worker]
  BY DEF MoveTypeOK
<1>2. ASSUME NEW ok, Stop(p, ok)
      PROVE  (\A q \in Workers \ {p} : work'[q] = work[q])
             /\ work'[p].pc \notin MovePcs
  BY <1>1, <1>2 DEF Stop, IdleWorker, MovePcs
<1>3. CASE StartManifest(p, work[p].day)
  BY <1>1, <1>3 DEF StartManifest, IdleWorker, MovePcs
<1>4. ASSUME NEW pc, Goto(p, pc), pc \in MovePcs => work[p].pc \in MovePcs
      PROVE  /\ \A q \in Workers \ {p} : work'[q] = work[q]
             /\ work'[p].pc \in MovePcs =>
                  work[p].pc \in MovePcs /\ work'[p].file = work[p].file
  BY <1>1, <1>4 DEF Goto, Worker
<1>5. CASE CheckSealed(p)
  BY <1>1, <1>5 DEF CheckSealed, Worker, MovePcs
<1>6. CASE ListDirectory(p) \/ LookupRow(p)
  BY <1>1, <1>6 DEF ListDirectory, LookupRow, Worker, MovePcs
<1>7. CASE RemoveOld(p) \/ UpdateDirectory(p) \/ InsertSnapshotRow(p)
           \/ DropManifest(p) \/ WriteManifest(p)
  BY <1>4, <1>7
  DEF RemoveOld, UpdateDirectory, InsertSnapshotRow, DropManifest, WriteManifest,
      MovePcs
<1>8. CASE Copy(p) \/ Protect(p)
  BY <1>2, <1>4, <1>8 DEF Copy, Protect, MovePcs
<1>9. CASE RemoveSource(p) \/ LockManifest(p) \/ CutShort(p)
  BY <1>2, <1>3, <1>9 DEF RemoveSource, LockManifest, CutShort
<1> QED
  BY <1>5, <1>6, <1>7, <1>8, <1>9 DEF WorkerRuns

(* Of a process that starts to move f, or to list a day, the same holds.   *)
LEMMA StartSteps ==
    ASSUME MoveTypeOK, NEW p \in Workers, NEW f, NEW d,
           StartMove(p, f) \/ StartManifest(p, d)
    PROVE  /\ \A q \in Workers \ {p} : work'[q] = work[q]
           /\ StartManifest(p, d) => work'[p].pc = "drop"
           /\ StartMove(p, f) => work'[p].pc = "remove" /\ work'[p].file = f
<1>1. work \in [Workers -> Worker]
  BY DEF MoveTypeOK
<1> QED
  BY <1>1 DEF StartMove, StartManifest, IdleWorker

LEMMA WorkTypedKept ==
    ASSUME MoveTypeOK, WorkTyped, NEW p \in Workers, WorkerRuns(p) \/ CutShort(p)
    PROVE  WorkTyped'
BY WorkerSteps DEF WorkTyped

LEMMA StartKeeps ==
    ASSUME MoveTypeOK, WorkTyped, NEW p \in Workers, NEW f \in Files, NEW d \in Dates,
           StartMove(p, f) \/ StartManifest(p, d)
    PROVE  work' \in [Workers -> Worker] /\ WorkTyped'
<1>1. work' \in [Workers -> Worker]
  BY StartsTyped DEF MoveTypeOK
<1> QED
  BY <1>1, StartSteps DEF WorkTyped, MovePcs

(* The agent's own state, and that of an invocation.                       *)
LEMMA TickTyped ==
    ASSUME tick \in Tick,
           \/ \E pc \in {"sweep", "seal", "manifest", "movelog", "locklog", "flip",
                        "merge", "append", "relock", "unlink", "verify"} :
                 TickGoto(pc) \/ NextDate(pc)
           \/ tick' \in {IdleTick, EnterSeal, EnterMerge, EnterVerify}
    PROVE  tick' \in Tick
<1>1. CASE tick' \in {IdleTick, EnterSeal, EnterMerge, EnterVerify}
  <2>1. IdleTick = [pc |-> "idle", files |-> {}, dates |-> {}, body |-> {}]
    BY DEF IdleTick
  <2>2. PICK pc \in {"idle", "seal", "merge", "verify"}, D \in SUBSET Dates :
           tick' = [pc |-> pc, files |-> {}, dates |-> D, body |-> {}]
    BY <1>1, <2>1 DEF EnterSeal, EnterMerge, EnterVerify, Past
  <2> QED
    BY <2>2 DEF Tick
<1>2. CASE \E pc \in {"sweep", "seal", "manifest", "movelog", "locklog", "flip",
                      "merge", "append", "relock", "unlink", "verify"} :
             TickGoto(pc) \/ NextDate(pc)
  <2>1. PICK pc : /\ pc \in {"sweep", "seal", "manifest", "movelog", "locklog", "flip",
                              "merge", "append", "relock", "unlink", "verify"}
                  /\ TickGoto(pc) \/ NextDate(pc)
    BY <1>2
  <2>2. CASE TickGoto(pc)
    BY <2>1, <2>2 DEF Tick, TickGoto
  <2>3. CASE NextDate(pc)
    <3> DEFINE D == {e \in tick.dates : \E d \in tick.dates : d < e}
    <3>1. D \in SUBSET Dates
      BY DEF Tick
    <3>2. tick' = [tick EXCEPT !.pc = pc, !.body = {}, !.dates = D]
      BY <2>3 DEF NextDate
    <3> HIDE DEF D
    <3> QED
      BY <2>1, <3>1, <3>2 DEF Tick
  <2> QED
    BY <2>1, <2>2, <2>3
<1> QED
  BY <1>1, <1>2

HostsHold == \A h \in Hosts : host[h].pc # "idle" => host[h].file \in Files

LEMMA HostTyped ==
    ASSUME host \in [Hosts -> Invocation], NEW h \in Hosts,
           \/ \E pc \in {"logged", "day", "stored", "moving", "done"} : HostGoto(h, pc)
           \/ host' = [host EXCEPT ![h] = IdleHost]
    PROVE  /\ host' \in [Hosts -> Invocation]
           /\ HostsHold /\ host[h].pc # "idle" => HostsHold'
<1>1. 1 \in Dates
  BY LastDateAssumption DEF Dates
<1> QED
  BY <1>1 DEF Invocation, HostGoto, IdleHost, HostsHold

TypeInv == TypeOK /\ WorkTyped /\ HostsHold

LEMMA TypeKept == TypeInv /\ [Next]_vars => TypeInv'
<1> SUFFICES ASSUME TypeInv, [Next]_vars
             PROVE  TypeInv'
  OBVIOUS
<1>0. MoveTypeOK /\ WorkTyped /\ tick \in Tick /\ host \in [Hosts -> Invocation]
  BY DEF TypeInv, TypeOK
<1>1. ASSUME NEW f \in Files, SaveSnapshot(f) \/ GrowsOld(f)
      PROVE  TypeInv'
  BY <1>1
  DEF SaveSnapshot, GrowsOld, TypeInv, HostsHold, TypeOK, MoveTypeOK, WorkTyped,
      logVars, moveVars
<1>2. CASE Midnight
  <2>1. today' \in Dates
    BY <1>2, LastDateAssumption DEF Midnight, TypeInv, TypeOK, Dates
  <2> QED
    BY <1>2, <2>1
    DEF Midnight, TypeInv, HostsHold, TypeOK, MoveTypeOK, WorkTyped, logVars, moveVars
<1>5. CASE UNCHANGED vars
  BY <1>5
  DEF vars, TypeInv, HostsHold, TypeOK, MoveTypeOK, WorkTyped, browserVars, logVars,
      moveVars
<1>3. ASSUME NEW h \in Hosts, NEW f \in Files, HostBegins(h, f)
      PROVE  TypeInv'
  <2>1. host' \in [Hosts -> Invocation] /\ HostsHold'
    BY <1>3 DEF HostBegins, TypeInv, HostsHold, TypeOK, Invocation
  <2> QED
    BY <1>3, <2>1
    DEF HostBegins, TypeInv, TypeOK, MoveTypeOK, WorkTyped, logVars, moveVars
<1>4. ASSUME NEW h \in Hosts, HostRuns(h)
      PROVE  TypeInv'
  <2>0. h \in Workers /\ host[h].date \in Dates
    BY <1>0 DEF Workers, Invocation
  <2>1. host' \in [Hosts -> Invocation] /\ HostsHold'
    <3>1. CASE HostMoves(h) /\ host' = host
      BY <1>0, <3>1 DEF HostsHold, TypeInv
    <3> QED
      BY <1>0, <1>4, <3>1, HostTyped
      DEF TypeInv, HostRuns, AppendAction, InsertToday, StoreEvent, ArchiveForTag, HostMoves,
          AppendResult
  <2>2. CASE AppendAction(h) \/ AppendResult(h)
    <3>1. PICK l \in Lines : AppendLine(host[h].date, l)
      <4>1. host[h].file \in Files
        BY <2>2 DEF AppendAction, AppendResult, TypeInv, HostsHold
      <4> QED
        BY <2>2, <4>1 DEF AppendAction, AppendResult, Lines
    <3>2. log' \in [Dates -> SUBSET Lines]
      BY <2>0, <3>1 DEF AppendLine, TypeInv, TypeOK
    <3> QED
      BY <2>1, <2>2, <3>2
      DEF AppendAction, AppendResult, TypeInv, TypeOK, MoveTypeOK, WorkTyped, browserVars, moveVars
  <2>3. CASE InsertToday(h)
    BY <2>0, <2>1, <2>3
    DEF InsertToday, InsertRow, TypeInv, TypeOK, MoveTypeOK, WorkTyped, browserVars, logVars
  <2>4. CASE StoreEvent(h)
    BY <2>0, <2>1, <2>4
    DEF StoreEvent, TypeInv, TypeOK, MoveTypeOK, WorkTyped, browserVars, logVars
  <2>5. CASE ArchiveForTag(h)
    <3>1. work' \in [Workers -> Worker] /\ WorkTyped'
      <4>1. CASE StartMove(h, host[h].file) /\ host[h].file \in downloads
        <5>1. host[h].file \in Files
          BY <1>0, <4>1 DEF MoveTypeOK
        <5>2. 1 \in Dates
          BY LastDateAssumption DEF Dates
        <5> QED
          BY <1>0, <2>0, <4>1, <5>1, <5>2, StartKeeps
      <4>2. CASE work' = work
        BY <1>0, <4>2 DEF MoveTypeOK, WorkTyped
      <4> QED
        BY <2>5, <4>1, <4>2 DEF ArchiveForTag
    <3> QED
      BY <2>1, <2>5, <3>1
      DEF ArchiveForTag, TypeInv, TypeOK, MoveTypeOK, browserVars, logVars
  <2>6. CASE HostMoves(h)
    <3>1. MoveTypeOK' /\ WorkTyped'
      <4>1. CASE WorkerRuns(h)
        BY <1>0, <2>0, <4>1, WorkerTyped, WorkTypedKept
      <4>2. CASE UNCHANGED moveVars
        BY <1>0, <4>2 DEF MoveTypeOK, WorkTyped, moveVars
      <4> QED
        BY <2>6, <4>1, <4>2 DEF HostMoves
    <3> QED
      BY <2>1, <2>6, <3>1 DEF HostMoves, TypeInv, TypeOK, browserVars, logVars
  <2> QED
    BY <1>4, <2>2, <2>3, <2>4, <2>5, <2>6 DEF HostRuns
<1>6. CASE SweepFile
  <2>1. PICK f \in tick.files :
           \/ /\ StartMove(Agent, f)
              /\ tick' = [tick EXCEPT !.pc = "moving", !.files = @ \ {f}]
           \/ work' = work /\ tick' = [tick EXCEPT !.files = @ \ {f}]
    BY <1>6 DEF SweepFile
  <2>2. f \in Files /\ tick' \in Tick
    BY <1>0, <2>1 DEF Tick
  <2>3. work' \in [Workers -> Worker] /\ WorkTyped'
    <3>1. 1 \in Dates /\ Agent \in Workers
      BY LastDateAssumption DEF Dates, Workers
    <3>2. CASE work' = work
      BY <1>0, <3>2 DEF MoveTypeOK, WorkTyped
    <3>3. CASE StartMove(Agent, f)
      BY <1>0, <2>2, <3>1, <3>3, StartKeeps
    <3> QED
      BY <2>1, <3>2, <3>3
  <2> QED
    BY <1>6, <2>2, <2>3
    DEF SweepFile, TypeInv, HostsHold, TypeOK, MoveTypeOK, browserVars, logVars
<1>7. CASE SweepMoves \/ SealManifest
  <2>1. tick' \in Tick
    <3>1. CASE tick' = tick
      BY <1>0, <3>1
    <3> QED
      BY <1>0, <1>7, <3>1, TickTyped DEF SweepMoves, SealManifest
  <2>2. MoveTypeOK' /\ WorkTyped'
    <3>1. CASE WorkerRuns(Agent)
      BY <1>0, <3>1, WorkerTyped, WorkTypedKept DEF Workers
    <3>2. CASE UNCHANGED moveVars
      BY <1>0, <3>2 DEF MoveTypeOK, WorkTyped, moveVars
    <3> QED
      BY <1>7, <3>1, <3>2 DEF SweepMoves, SealManifest
  <2> QED
    BY <1>7, <2>1, <2>2
    DEF SweepMoves, SealManifest, TypeInv, HostsHold, TypeOK, browserVars, logVars
<1>8. CASE TickBegins \/ SweepEnds \/ SealEnds \/ MergeEnds \/ TickEnds
  <2>1. tick' \in Tick
    <3>1. CASE TickBegins
      BY <1>0, <3>1 DEF TickBegins, Tick, IdleTick, MoveTypeOK
    <3> QED
      BY <1>0, <1>8, <3>1, TickTyped DEF SweepEnds, SealEnds, MergeEnds, TickEnds
  <2> QED
    BY <1>8, <2>1
    DEF TickBegins, SweepEnds, SealEnds, MergeEnds, TickEnds, TypeInv, HostsHold,
        TypeOK, MoveTypeOK, WorkTyped, moveVars, browserVars, logVars
<1>9. ASSUME NEW d \in Dates,
             \/ SealDay(d) \/ MoveLog(d) \/ LockLog(d) \/ FlipSealed(d)
             \/ MergeLog(d) \/ AppendOrphan(d) \/ RelockLog(d) \/ UnlinkOrphan(d)
             \/ VerifyDay(d)
      PROVE  TypeInv'
  <2>1. CASE MergeLog(d)
    <3>1. tick' \in Tick
      <4>1. CASE tick' = [tick EXCEPT !.pc = "append", !.body = log[d]]
        BY <1>0, <4>1 DEF Tick, TypeInv, TypeOK
      <4>2. CASE NextDate("merge")
        BY <1>0, <4>2, TickTyped
      <4> QED
        BY <2>1, <4>1, <4>2 DEF MergeLog
    <3>2. MoveTypeOK'
      BY <1>0, <2>1 DEF MergeLog, InsertRow, MoveTypeOK
    <3> QED
      BY <2>1, <3>1, <3>2
      DEF MergeLog, TypeInv, HostsHold, TypeOK, WorkTyped, browserVars
  <2>2. CASE SealDay(d)
    <3>1. tick' \in Tick
      BY <1>0, <2>2, TickTyped DEF SealDay
    <3>2. work' \in [Workers -> Worker] /\ WorkTyped'
      <4>1. work' \in [Workers -> Worker]
        BY <1>0, <2>2, WorkerFields DEF SealDay, StartManifest, MoveTypeOK, Workers
      <4> QED
        BY <1>0, <2>2, <4>1
        DEF SealDay, StartManifest, MoveTypeOK, WorkTyped, MovePcs, IdleWorker, Worker
    <3> QED
      BY <2>2, <3>1, <3>2
      DEF SealDay, TypeInv, HostsHold, TypeOK, MoveTypeOK, browserVars, logVars
  <2>3. CASE \/ MoveLog(d) \/ LockLog(d) \/ AppendOrphan(d) \/ RelockLog(d)
             \/ UnlinkOrphan(d) \/ VerifyDay(d)
    <3>1. tick' \in Tick
      BY <1>0, <2>3, TickTyped
      DEF MoveLog, LockLog, AppendOrphan, RelockLog, UnlinkOrphan, VerifyDay
    <3>2. /\ log' \in [Dates -> SUBSET Lines]
          /\ sealedLog' \in [Dates -> [mode  : {"absent", "writable", "readonly"},
                                       lines : SUBSET Lines]]
          /\ flagged' \in SUBSET Dates
      <4>1. tick.body \in SUBSET Lines
        BY <1>0 DEF Tick
      <4> QED
        BY <2>3, <4>1
        DEF MoveLog, LockLog, AppendOrphan, RelockLog, UnlinkOrphan, VerifyDay, TypeInv,
            TypeOK, logVars
    <3> QED
      BY <2>3, <3>1, <3>2
      DEF MoveLog, LockLog, AppendOrphan, RelockLog, UnlinkOrphan, VerifyDay, TypeInv,
          HostsHold, TypeOK, MoveTypeOK, WorkTyped, moveVars, browserVars
  <2>4. CASE FlipSealed(d)
    <3>1. tick' \in Tick
      BY <1>0, <2>4, TickTyped DEF FlipSealed
    <3> QED
      BY <2>4, <3>1
      DEF FlipSealed, TypeInv, HostsHold, TypeOK, MoveTypeOK, WorkTyped, browserVars,
          logVars
  <2> QED
    BY <1>9, <2>1, <2>2, <2>3, <2>4
<1>10. CASE Fault
  <2>0. faults' \in Nat
    BY <1>10 DEF Fault, TypeInv, TypeOK
  <2>1. ASSUME NEW p \in Workers, CutShort(p)
        PROVE  MoveTypeOK' /\ WorkTyped'
    BY <1>0, <2>1, CutShortTyped, WorkTypedKept
  <2>2. CASE \E p \in Workers : StepThrows(p)
    BY <2>0, <2>1, <2>2
    DEF StepThrows, WorkerFails, TypeInv, HostsHold, TypeOK, browserVars, logVars
  <2>3. ASSUME NEW h \in Hosts, StoreFails(h)
        PROVE  TypeInv'
    <3>1. host' \in [Hosts -> Invocation] /\ HostsHold'
      BY <1>0, <2>3, HostTyped DEF StoreFails, TypeInv
    <3> QED
      BY <2>0, <2>3, <3>1
      DEF StoreFails, TypeInv, TypeOK, MoveTypeOK, WorkTyped, moveVars, browserVars,
          logVars
  <2>4. ASSUME NEW h \in Hosts, HostKilled(h)
        PROVE  TypeInv'
    <3>1. host' \in [Hosts -> Invocation] /\ HostsHold'
      BY <1>0, <2>4, HostTyped DEF HostKilled, TypeInv
    <3>2. MoveTypeOK' /\ WorkTyped'
      BY <2>1, <2>4 DEF HostKilled, Workers
    <3> QED
      BY <2>0, <2>4, <3>1, <3>2 DEF HostKilled, TypeInv, TypeOK, browserVars, logVars
  <2>5. CASE SealThrows \/ MergeThrows
    <3>1. tick' \in Tick
      BY <1>0, <2>5, TickTyped DEF SealThrows, MergeThrows
    <3> QED
      BY <2>0, <2>5, <3>1
      DEF SealThrows, MergeThrows, TypeInv, HostsHold, TypeOK, MoveTypeOK, WorkTyped,
          moveVars, browserVars, logVars
  <2>6. CASE AgentKilled
    <3>1. tick' \in Tick
      BY <1>0, <2>6, TickTyped DEF AgentKilled
    <3>2. MoveTypeOK' /\ WorkTyped'
      BY <2>1, <2>6 DEF AgentKilled, Workers
    <3> QED
      BY <2>0, <2>6, <3>1, <3>2
      DEF AgentKilled, TypeInv, HostsHold, TypeOK, browserVars, logVars
  <2> QED
    BY <1>10, <2>2, <2>3, <2>4, <2>5, <2>6 DEF Fault
<1> QED
  BY <1>1, <1>2, <1>3, <1>4, <1>5, <1>6, <1>7, <1>8, <1>9, <1>10 DEF Next, AgentRuns

(***************************************************************************)
(* Every behaviour is well typed, with slow invocations and late merges    *)
(* too.                                                                    *)
(***************************************************************************)
THEOREM TypeCorrect == Spec => []TypeOK
<1>1. Init => TypeInv
  BY InitTyped
  DEF TypeInv, WorkTyped, HostsHold, Init, MoveInit, IdleWorker, IdleHost, MovePcs
<1>2. TypeInv => TypeOK
  BY DEF TypeInv
<1> QED
  BY <1>1, <1>2, TypeKept, PTL DEF Spec

(***************************************************************************)
(* The invariant.  Owned: no two processes move the same snapshot, because *)
(* an invocation's snapshot is young and its own, and the agent's is not   *)
(* young.  Sources: what keeps a snapshot in Downloads until its move ends.*)
(* Copies: what a move has achieved so far is still so.                    *)
(***************************************************************************)
Moving(p) == work[p].pc \in MovePcs

Owned ==
    /\ young \subseteq saved /\ sent \subseteq saved /\ downloads \subseteq saved
    /\ \A h \in Hosts : host[h].pc # "idle" => host[h].file \in young \cap sent
    /\ \A g, h \in Hosts :
          (host[g].pc # "idle" /\ host[h].pc # "idle" /\ host[g].file = host[h].file)
              => g = h
    /\ \A h \in Hosts :
          Moving(h) => host[h].pc = "moving" /\ work[h].file = host[h].file
    /\ tick.files \subseteq saved \ young
    /\ Moving(Agent) => work[Agent].file \in saved \ young

Sources ==
    /\ young \ sent \subseteq downloads
    /\ \A h \in Hosts :
          host[h].pc \in {"pinned", "logged", "day"} => host[h].file \in downloads
    /\ \A p \in Workers : Moving(p) => work[p].file \in downloads

Copies ==
    \A p \in Workers :
        /\ work[p].pc \in {"protect", "update", "check", "insert", "unlink"}
              => archive[work[p].file] = "whole"
        /\ work[p].pc \in {"check", "insert", "unlink"}
              => place[work[p].file] # "downloads"

Safe == Owned /\ Sources /\ Copies /\ SnapshotKept /\ DownloadsRowsTrue

LEMMA Disjoint ==
    ASSUME Owned, NEW p \in Workers, NEW q \in Workers, Moving(p), Moving(q),
           work[p].file = work[q].file
    PROVE  p = q
BY DEF Owned, Workers

(***************************************************************************)
(* A step of a move, and a move cut short.                                 *)
(***************************************************************************)
LEMMA MoveKeeps ==
    ASSUME TypeInv, Safe, saved' = saved, NEW p \in Workers, WorkerRuns(p) \/ CutShort(p)
    PROVE  /\ Copies' /\ SnapshotKept' /\ DownloadsRowsTrue'
           /\ \A q \in Workers : Moving(q)' => work'[q].file \in downloads'
           /\ \/ downloads' = downloads
              \/ Moving(p) /\ downloads' = downloads \ {work[p].file}
<1> DEFINE f == work[p].file
<1>0. work \in [Workers -> Worker] /\ archive \in [Files -> {"absent", "partial", "whole"}]
        /\ place \in [Files -> {"none", "downloads", "archive"}]
  BY DEF TypeInv, TypeOK, MoveTypeOK
<1>1. \A q \in Workers : Moving(q) => work[q].file \in Files
  BY DEF TypeInv, WorkTyped, Moving
<1>2. /\ \A q \in Workers \ {p} : work'[q] = work[q]
      /\ Moving(p)' => Moving(p) /\ work'[p].file = f
  BY WorkerSteps DEF TypeInv, TypeOK, Moving
<1>3. \A q \in Workers \ {p} : Moving(q) /\ Moving(p) => work[q].file # f
  BY Disjoint DEF Safe
<1>4. CASE RemoveOld(p) \/ Copy(p) \/ CutShort(p)
  <2>1. /\ UNCHANGED <<downloads, place>>
        /\ \A g \in Files : archive'[g] # archive[g] =>
              g = f /\ Moving(p) /\ f \in downloads
        /\ work'[p].pc \in {"idle", "copy", "protect"}
        /\ work'[p].pc = "protect" => archive'[f] = "whole"
    BY <1>0, <1>1, <1>4
    DEF RemoveOld, Copy, CutShort, Goto, Stop, IdleWorker, Moving, MovePcs, Safe,
        Sources, Worker
  <2>2. Copies'
    <3> SUFFICES ASSUME NEW q \in Workers,
                        work'[q].pc \in {"protect", "update", "check", "insert", "unlink"}
                 PROVE  /\ archive'[work'[q].file] = "whole"
                        /\ work'[q].pc \in {"check", "insert", "unlink"}
                             => place'[work'[q].file] # "downloads"
      BY DEF Copies
    <3>1. CASE q = p
      BY <1>2, <2>1, <3>1 DEF Moving, MovePcs
    <3>2. CASE q # p
      <4>1. Moving(q) /\ work'[q] = work[q]
        BY <1>2, <3>2 DEF Moving, MovePcs
      <4>2. archive'[work[q].file] = archive[work[q].file]
        BY <1>1, <1>3, <2>1, <3>2, <4>1
      <4> QED
        BY <2>1, <4>1, <4>2 DEF Safe, Copies
    <3> QED
      BY <3>1, <3>2
  <2>3. SnapshotKept' /\ DownloadsRowsTrue'
    BY <2>1 DEF Safe, SnapshotKept, DownloadsRowsTrue, TypeInv, TypeOK
  <2> QED
    BY <1>2, <2>1, <2>2, <2>3 DEF Safe, Sources, Moving
<1>5. CASE \/ Protect(p) \/ CheckSealed(p) \/ InsertSnapshotRow(p)
           \/ DropManifest(p) \/ ListDirectory(p) \/ LookupRow(p)
           \/ WriteManifest(p) \/ LockManifest(p)
  <2>1. /\ UNCHANGED <<downloads, archive, place>>
        /\ work'[p].pc \in {"protect", "update", "check", "insert", "unlink"} =>
              /\ work[p].pc \in {"protect", "update", "check", "insert", "unlink"}
              /\ work'[p].pc \in {"check", "insert", "unlink"} =>
                   work[p].pc \in {"check", "insert", "unlink"}
    <3>1. CASE CheckSealed(p) \/ ListDirectory(p)
      BY <1>0, <3>1 DEF CheckSealed, ListDirectory, Worker
    <3>2. CASE LookupRow(p)
      BY <1>0, <3>2 DEF LookupRow, Worker
    <3>3. CASE Protect(p) \/ InsertSnapshotRow(p) \/ DropManifest(p)
      BY <1>0, <3>3
      DEF Protect, InsertSnapshotRow, DropManifest, Goto, Stop, IdleWorker, Worker
    <3>4. CASE WriteManifest(p) \/ LockManifest(p)
      BY <1>0, <3>4 DEF WriteManifest, LockManifest, Goto, Stop, IdleWorker, Worker
    <3> QED
      BY <1>5, <3>1, <3>2, <3>3, <3>4
  <2> QED
    BY <1>2, <2>1
    DEF Safe, Sources, Copies, SnapshotKept, DownloadsRowsTrue, Moving, MovePcs
<1>6. CASE UpdateDirectory(p)
  <2>1. /\ UNCHANGED <<downloads, archive>>
        /\ work[p].pc = "update" /\ work'[p].pc = "check" /\ Moving(p) /\ f \in Files
        /\ \A g \in Files : place'[g] = "downloads" => place[g] = "downloads" /\ g # f
    BY <1>0, <1>1, <1>6 DEF UpdateDirectory, Goto, Moving, MovePcs
  <2>2. Copies'
    <3> SUFFICES ASSUME NEW q \in Workers,
                        work'[q].pc \in {"protect", "update", "check", "insert", "unlink"}
                 PROVE  /\ archive'[work'[q].file] = "whole"
                        /\ work'[q].pc \in {"check", "insert", "unlink"}
                             => place'[work'[q].file] # "downloads"
      BY DEF Copies
    <3>1. CASE q = p
      BY <1>2, <2>1, <3>1 DEF Safe, Copies, Moving, MovePcs
    <3>2. CASE q # p
      BY <1>1, <1>2, <2>1, <3>2 DEF Safe, Copies, Moving, MovePcs
    <3> QED
      BY <3>1, <3>2
  <2> QED
    BY <1>2, <2>1, <2>2 DEF Safe, Sources, SnapshotKept, DownloadsRowsTrue, Moving
<1>7. CASE RemoveSource(p)
  <2>1. /\ UNCHANGED <<archive, place>>
        /\ downloads' = downloads \ {f}
        /\ work[p].pc = "unlink" /\ Moving(p) /\ work'[p].pc \in {"idle", "drop"}
    BY <1>0, <1>7
    DEF RemoveSource, StartManifest, Stop, IdleWorker, Moving, MovePcs
  <2>2. Copies'
    BY <1>2, <2>1 DEF Safe, Copies
  <2>3. SnapshotKept' /\ DownloadsRowsTrue'
    BY <2>1 DEF Safe, Copies, SnapshotKept, DownloadsRowsTrue
  <2>4. \A q \in Workers : Moving(q)' => work'[q].file \in downloads'
    BY <1>2, <1>3, <2>1 DEF Safe, Sources, Moving, MovePcs
  <2> QED
    BY <2>1, <2>2, <2>3, <2>4
<1> QED
  BY <1>4, <1>5, <1>6, <1>7 DEF WorkerRuns

(* In a whole step of a process: its snapshot is still its own.            *)
LEMMA MoveSafe ==
    ASSUME TypeInv, Safe, UNCHANGED browserVars, tick'.files \subseteq tick.files,
           NEW p \in Workers, WorkerRuns(p) \/ CutShort(p),
           \/ host' = host
           \/ p \in Hosts /\ CutShort(p) /\ host' = [host EXCEPT ![p] = IdleHost]
    PROVE  Safe'
<1>0. work \in [Workers -> Worker] /\ host \in [Hosts -> Invocation]
  BY DEF TypeInv, TypeOK, MoveTypeOK
<1>1. /\ Copies' /\ SnapshotKept' /\ DownloadsRowsTrue'
      /\ \A q \in Workers : Moving(q)' => work'[q].file \in downloads'
      /\ \/ downloads' = downloads
         \/ Moving(p) /\ downloads' = downloads \ {work[p].file}
  BY MoveKeeps DEF browserVars
<1>2. /\ \A q \in Workers \ {p} : work'[q] = work[q]
      /\ Moving(p)' => Moving(p) /\ work'[p].file = work[p].file
  BY WorkerSteps DEF TypeInv, TypeOK, Moving
<1>3. \A h \in Hosts : \/ host'[h] = host[h]
                       \/ host'[h].pc = "idle" /\ ~Moving(h)'
  <2>1. CutShort(p) => ~Moving(p)'
    BY <1>0 DEF CutShort, Stop, IdleWorker, Moving, MovePcs
  <2> QED
    BY <1>0, <2>1 DEF IdleHost
<1>4. Owned'
  <2>1. \A h \in Hosts :
           Moving(h)' => host'[h].pc = "moving" /\ work'[h].file = host'[h].file
    BY <1>2, <1>3 DEF Safe, Owned, Moving, Workers
  <2>2. Moving(Agent)' => work'[Agent].file \in saved' \ young'
    BY <1>2 DEF Safe, Owned, Moving, Workers, browserVars
  <2>3. downloads' \subseteq saved'
    BY <1>1 DEF Safe, Owned, browserVars
  <2> QED
    BY <1>3, <2>1, <2>2, <2>3 DEF Safe, Owned, browserVars
<1>5. Sources'
  <2>1. CASE downloads' = downloads
    BY <1>1, <1>3, <2>1 DEF Safe, Sources, browserVars
  <2>2. CASE Moving(p) /\ downloads' = downloads \ {work[p].file}
    <3>1. work[p].file \notin young \ sent
      <4>1. p = Agent \/ (p \in Hosts /\ host[p].pc = "moving")
        BY <2>2 DEF Safe, Owned, Workers
      <4> QED
        BY <2>2, <4>1 DEF Safe, Owned
    <3>2. ASSUME NEW h \in Hosts, host[h].pc \in {"pinned", "logged", "day"}
          PROVE  host[h].file # work[p].file
      BY <2>2, <3>2 DEF Safe, Owned, Workers
    <3> QED
      BY <1>1, <1>3, <2>2, <3>1, <3>2 DEF Safe, Sources, browserVars
  <2> QED
    BY <1>1, <2>1, <2>2
<1> QED
  BY <1>1, <1>4, <1>5 DEF Safe

(* A process that begins to move a snapshot of its own.                    *)
LEMMA StartSafe ==
    ASSUME TypeInv, Safe, UNCHANGED <<downloads, archive, place>>, UNCHANGED browserVars,
           NEW p \in Workers, NEW f \in downloads, StartMove(p, f),
           \/ /\ p = Agent /\ f \in saved \ young /\ host' = host
              /\ tick'.files \subseteq tick.files
           \/ /\ p \in Hosts /\ f = host[p].file /\ host[p].pc = "stored"
              /\ HostGoto(p, "moving") /\ tick' = tick
    PROVE  Safe'
<1>0. work \in [Workers -> Worker] /\ host \in [Hosts -> Invocation] /\ Agent \notin Hosts
  BY NamesAssumption DEF TypeInv, TypeOK, MoveTypeOK
<1>1. /\ \A q \in Workers \ {p} : work'[q] = work[q]
      /\ work'[p].pc = "remove" /\ work'[p].file = f
  BY StartSteps DEF TypeInv, TypeOK
<1>2. \A h \in Hosts :
         \/ host'[h] = host[h]
         \/ /\ h = p /\ host[h].pc = "stored" /\ f = host[h].file
            /\ host'[h].pc = "moving" /\ host'[h].file = host[h].file
  BY <1>0 DEF HostGoto, Invocation
<1>3. Owned'
  <2>1. \A h \in Hosts :
           Moving(h)' => host'[h].pc = "moving" /\ work'[h].file = host'[h].file
    BY <1>0, <1>1, <1>2 DEF Safe, Owned, Moving, Workers, HostGoto, Invocation
  <2>2. Moving(Agent)' => work'[Agent].file \in saved' \ young'
    BY <1>0, <1>1 DEF Safe, Owned, Moving, Workers, browserVars
  <2> QED
    BY <1>2, <2>1, <2>2 DEF Safe, Owned, browserVars
<1>4. Sources'
  BY <1>1, <1>2 DEF Safe, Sources, browserVars, Moving
<1>5. Copies'
  BY <1>1 DEF Safe, Copies
<1> QED
  BY <1>3, <1>4, <1>5 DEF Safe, SnapshotKept, DownloadsRowsTrue, browserVars

(* The other steps of the agent and of an invocation change no snapshot.   *)
LEMMA QuietSafe ==
    ASSUME TypeInv, Safe, UNCHANGED <<downloads, archive, place, work, saved, sent>>,
           tick'.files \subseteq saved \ young,
           young' = young,
           \/ host' = host
           \/ \E h \in Hosts :
                 /\ host[h].pc # "moving" \/ ~Moving(h)
                 /\ \/ host[h].pc = "pinned" /\ HostGoto(h, "logged")
                    \/ host[h].pc = "logged" /\ HostGoto(h, "day")
                    \/ host[h].pc # "idle" /\ HostGoto(h, "done")
                    \/ host' = [host EXCEPT ![h] = IdleHost]
    PROVE  Safe'
<1>0. host \in [Hosts -> Invocation]
  BY DEF TypeInv, TypeOK
<1>1. \A p \in Workers : Moving(p)' <=> Moving(p)
  BY DEF Moving
<1>2. \A h \in Hosts :
         \/ host'[h] = host[h]
         \/ ~Moving(h) /\ host'[h].pc = "idle"
         \/ /\ ~Moving(h) /\ host[h].pc # "idle" /\ host'[h].file = host[h].file
            /\ host'[h].pc \in {"logged", "day", "done"}
            /\ host'[h].pc # "done" => host[h].pc \in {"pinned", "logged"}
  BY <1>0 DEF HostGoto, Invocation, IdleHost, Safe, Owned
<1>3. Owned'
  <2>1. \A h \in Hosts :
           Moving(h)' => host'[h].pc = "moving" /\ work'[h].file = host'[h].file
    BY <1>1, <1>2 DEF Safe, Owned, Workers
  <2>2. \A h \in Hosts :
           host'[h].pc # "idle" => host[h].pc # "idle" /\ host'[h].file = host[h].file
    BY <1>2
  <2> QED
    BY <1>1, <2>1, <2>2 DEF Safe, Owned, Workers
<1>4. Sources'
  <2>1. \A h \in Hosts : host'[h].pc \in {"pinned", "logged", "day"} =>
           host[h].pc \in {"pinned", "logged", "day"} /\ host'[h].file = host[h].file
    BY <1>2
  <2> QED
    BY <1>1, <2>1 DEF Safe, Sources
<1>5. Copies'
  BY DEF Safe, Copies
<1> QED
  BY <1>3, <1>4, <1>5 DEF Safe, SnapshotKept, DownloadsRowsTrue

LEMMA BrowserSafe ==
    ASSUME ~SlowHosts, TypeInv, Safe, NEW f \in Files, SaveSnapshot(f) \/ GrowsOld(f)
    PROVE  Safe'
<1>1. CASE SaveSnapshot(f)
  <2>1. /\ f \notin saved /\ saved' = saved \cup {f} /\ young' = young \cup {f}
        /\ downloads' = downloads \cup {f}
        /\ UNCHANGED <<archive, place, work, sent, host, tick>>
    BY <1>1 DEF SaveSnapshot
  <2>2. Owned'
    BY <2>1 DEF Safe, Owned, Moving
  <2>3. Sources'
    BY <2>1 DEF Safe, Sources, Moving
  <2> QED
    BY <2>1, <2>2, <2>3 DEF Safe, Copies, SnapshotKept, DownloadsRowsTrue
<1>2. CASE GrowsOld(f)
  <2>1. /\ young' = young \ {f} /\ ~InHand(f)
        /\ UNCHANGED <<downloads, archive, place, work, saved, sent, host, tick>>
    BY <1>2 DEF GrowsOld, moveVars
  <2>2. Owned'
    BY <2>1 DEF Safe, Owned, Moving, InHand
  <2>3. Sources'
    BY <2>1 DEF Safe, Sources, Moving
  <2> QED
    BY <2>1, <2>2, <2>3 DEF Safe, Copies, SnapshotKept, DownloadsRowsTrue
<1> QED
  BY <1>1, <1>2

LEMMA BeginSafe ==
    ASSUME ~SlowHosts, TypeInv, Safe, NEW h \in Hosts, NEW f \in Files, HostBegins(h, f)
    PROVE  Safe'
<1>1. /\ host[h].pc = "idle" /\ f \in young \ sent /\ sent' = sent \cup {f}
      /\ UNCHANGED <<downloads, archive, place, work, saved, young, tick>>
  BY DEF HostBegins, moveVars
<1>2. /\ host'[h].pc = "pinned" /\ host'[h].file = f
      /\ \A g \in Hosts \ {h} : host'[g] = host[g]
  BY DEF HostBegins, TypeInv, TypeOK
<1>3. Owned'
  <2>1. \A g \in Hosts :
           Moving(g)' => host'[g].pc = "moving" /\ work'[g].file = host'[g].file
    BY <1>1, <1>2 DEF Safe, Owned, Moving
  <2>2. \A g \in Hosts : host[g].pc # "idle" => host[g].file # f
    BY <1>1 DEF Safe, Owned
  <2> QED
    BY <1>1, <1>2, <2>1, <2>2 DEF Safe, Owned, Moving
<1>4. Sources'
  BY <1>1, <1>2 DEF Safe, Sources, Moving
<1> QED
  BY <1>1, <1>3, <1>4 DEF Safe, Copies, SnapshotKept, DownloadsRowsTrue

LEMMA StoreSafe ==
    ASSUME TypeInv, Safe, NEW h \in Hosts, StoreEvent(h)
    PROVE  Safe'
<1> DEFINE f == host[h].file
<1>1. /\ host[h].pc = "day" /\ f \in Files /\ f \in downloads
      /\ \A g \in Files : place'[g] # place[g] => g = f
      /\ UNCHANGED <<downloads, archive, work, saved, sent, young, tick>>
  BY DEF StoreEvent, browserVars, Safe, Sources, TypeInv, TypeOK, MoveTypeOK, HostsHold
<1>2. /\ host'[h].pc = "stored" /\ host'[h].file = f
      /\ \A g \in Hosts \ {h} : host'[g] = host[g]
  BY DEF StoreEvent, HostGoto, TypeInv, TypeOK, Invocation
<1>3. \A p \in Workers : Moving(p) => work[p].file \in Files \ {f}
  <2>1. \A p \in Workers : Moving(p) => work[p].file \in Files
    BY DEF TypeInv, WorkTyped, Moving
  <2> QED
    BY <1>1, <2>1 DEF Safe, Owned, Workers
<1>4. Owned'
  <2>1. \A g \in Hosts :
           Moving(g)' => host'[g].pc = "moving" /\ work'[g].file = host'[g].file
    BY <1>1, <1>2 DEF Safe, Owned, Moving
  <2> QED
    BY <1>1, <1>2, <2>1 DEF Safe, Owned, Moving
<1>5. Sources'
  BY <1>1, <1>2 DEF Safe, Sources, Moving
<1>6. Copies'
  BY <1>1, <1>3 DEF Safe, Copies, Moving, MovePcs
<1> QED
  BY <1>1, <1>4, <1>5, <1>6 DEF Safe, SnapshotKept, DownloadsRowsTrue

LEMMA HostSafe ==
    ASSUME TypeInv, Safe, NEW h \in Hosts, HostRuns(h)
    PROVE  Safe'
<1>0. h \in Workers /\ tick.files \subseteq saved \ young
  BY DEF Workers, Safe, Owned
<1>1. CASE AppendAction(h) \/ InsertToday(h) \/ AppendResult(h)
  BY <1>0, <1>1, QuietSafe
  DEF AppendAction, InsertToday, AppendResult, moveVars, browserVars
<1>2. CASE StoreEvent(h)
  BY <1>2, StoreSafe
<1>3. CASE ArchiveForTag(h)
  <2>1. CASE StartMove(h, host[h].file) /\ host[h].file \in downloads
    BY <1>0, <1>3, <2>1, StartSafe DEF ArchiveForTag
  <2>2. CASE host[h].file \notin downloads
    BY <1>0, <1>3, <2>2, QuietSafe DEF ArchiveForTag, browserVars
  <2> QED
    BY <1>3, <2>1, <2>2 DEF ArchiveForTag
<1>4. CASE HostMoves(h)
  <2>1. CASE WorkerRuns(h) /\ host' = host
    BY <1>0, <1>4, <2>1, MoveSafe DEF HostMoves
  <2>2. CASE work[h].pc = "idle" /\ HostGoto(h, "done") /\ UNCHANGED moveVars
    <3>1. ~Moving(h)
      BY <2>2 DEF Moving, MovePcs
    <3> QED
      BY <1>0, <1>4, <2>2, <3>1, QuietSafe DEF HostMoves, moveVars, browserVars
  <2> QED
    BY <1>4, <2>1, <2>2 DEF HostMoves
<1> QED
  BY <1>1, <1>2, <1>3, <1>4 DEF HostRuns

LEMMA AgentSafe ==
    ASSUME TypeInv, Safe, AgentRuns
    PROVE  Safe'
<1>0. /\ Agent \in Workers /\ tick \in Tick
      /\ tick.files \subseteq saved \ young /\ downloads \subseteq saved
  BY DEF Workers, Safe, Owned, TypeInv, TypeOK
<1>1. CASE SweepMoves \/ SealManifest
  <2>1. tick'.files \subseteq tick.files
    BY <1>0, <1>1 DEF SweepMoves, SealManifest, TickGoto, NextDate, Tick
  <2>2. CASE WorkerRuns(Agent)
    BY <1>0, <1>1, <2>1, <2>2, MoveSafe DEF SweepMoves, SealManifest
  <2>3. CASE UNCHANGED moveVars
    BY <1>0, <1>1, <2>1, <2>3, QuietSafe
    DEF SweepMoves, SealManifest, moveVars, browserVars
  <2> QED
    BY <1>1, <2>2, <2>3 DEF SweepMoves, SealManifest
<1>2. CASE SweepFile
  <2>1. tick'.files \subseteq tick.files
    BY <1>0, <1>2 DEF SweepFile, Tick
  <2>2. ASSUME NEW f \in tick.files, f \in downloads, StartMove(Agent, f)
        PROVE  Safe'
    BY <1>0, <1>2, <2>1, <2>2, StartSafe DEF SweepFile
  <2>3. CASE work' = work
    BY <1>0, <1>2, <2>1, <2>3, QuietSafe DEF SweepFile, browserVars
  <2> QED
    BY <1>2, <2>2, <2>3 DEF SweepFile
<1>3. ASSUME NEW d \in Dates, SealDay(d)
      PROVE  Safe'
  <2>1. tick'.files \subseteq tick.files
    BY <1>0, <1>3 DEF SealDay, TickGoto, Tick
  <2>2. /\ \A q \in Workers \ {Agent} : work'[q] = work[q]
        /\ ~Moving(Agent)' /\ work'[Agent].pc = "drop"
    BY <1>0, <1>3, StartSteps DEF SealDay, TypeInv, TypeOK, Moving, MovePcs
  <2>3. /\ UNCHANGED <<downloads, archive, place, saved, young, sent, host>>
        /\ Agent \notin Hosts
    BY <1>3, NamesAssumption DEF SealDay, browserVars
  <2>4. Owned'
    BY <2>1, <2>2, <2>3 DEF Safe, Owned, Moving, Workers
  <2>5. Sources' /\ Copies'
    <3>1. \A q \in Workers : q = Agent \/ work'[q] = work[q]
      BY <2>2
    <3> QED
      BY <2>2, <2>3, <3>1 DEF Safe, Sources, Copies, Moving
  <2> QED
    BY <2>3, <2>4, <2>5 DEF Safe, SnapshotKept, DownloadsRowsTrue
<1>4. CASE TickBegins \/ SweepEnds \/ SealEnds \/ MergeEnds \/ TickEnds
  <2>1. tick'.files \subseteq saved \ young
    <3>1. CASE TickBegins
      BY <1>0, <3>1 DEF TickBegins, IdleTick
    <3>2. /\ IdleTick.files = {} /\ EnterSeal.files = {}
          /\ EnterMerge.files = {} /\ EnterVerify.files = {}
      BY DEF IdleTick, EnterSeal, EnterMerge, EnterVerify
    <3> QED
      BY <1>4, <3>1, <3>2 DEF SweepEnds, SealEnds, MergeEnds, TickEnds
  <2> QED
    BY <1>4, <2>1, QuietSafe
    DEF TickBegins, SweepEnds, SealEnds, MergeEnds, TickEnds, moveVars, browserVars
<1>5. ASSUME NEW d \in Dates,
             \/ MoveLog(d) \/ LockLog(d) \/ FlipSealed(d) \/ MergeLog(d)
             \/ AppendOrphan(d) \/ RelockLog(d) \/ UnlinkOrphan(d) \/ VerifyDay(d)
      PROVE  Safe'
  <2>1. tick'.files \subseteq saved \ young
    BY <1>0, <1>5
    DEF MoveLog, LockLog, FlipSealed, MergeLog, AppendOrphan, RelockLog, UnlinkOrphan,
        VerifyDay, TickGoto, NextDate, Tick
  <2> QED
    BY <1>5, <2>1, QuietSafe
    DEF MoveLog, LockLog, FlipSealed, MergeLog, AppendOrphan, RelockLog, UnlinkOrphan,
        VerifyDay, moveVars, browserVars
<1> QED
  BY <1>1, <1>2, <1>3, <1>4, <1>5 DEF AgentRuns

LEMMA FaultSafe ==
    ASSUME TypeInv, Safe, Fault
    PROVE  Safe'
<1>0. tick \in Tick /\ tick.files \subseteq saved \ young
  BY DEF Safe, Owned, TypeInv, TypeOK
<1>1. ASSUME NEW p \in Workers, StepThrows(p)
      PROVE  Safe'
  BY <1>1, MoveSafe DEF StepThrows, WorkerFails
<1>2. ASSUME NEW h \in Hosts, StoreFails(h)
      PROVE  Safe'
  BY <1>0, <1>2, QuietSafe DEF StoreFails, moveVars, browserVars
<1>3. ASSUME NEW h \in Hosts, HostKilled(h)
      PROVE  Safe'
  BY <1>3, MoveSafe DEF HostKilled, Workers
<1>4. CASE SealThrows \/ MergeThrows
  <2>1. tick'.files \subseteq saved \ young
    BY <1>0, <1>4 DEF SealThrows, MergeThrows, NextDate, Tick
  <2> QED
    BY <1>4, <2>1, QuietSafe DEF SealThrows, MergeThrows, moveVars, browserVars
<1>5. CASE AgentKilled
  <2>1. tick'.files \subseteq tick.files
    BY <1>5 DEF AgentKilled, IdleTick
  <2> QED
    BY <1>5, <2>1, MoveSafe DEF AgentKilled, Workers
<1> QED
  BY <1>1, <1>2, <1>3, <1>4, <1>5 DEF Fault

LEMMA SafeKept == ~SlowHosts /\ TypeInv /\ Safe /\ [Next]_vars => Safe'
<1> SUFFICES ASSUME ~SlowHosts, TypeInv, Safe, [Next]_vars
             PROVE  Safe'
  OBVIOUS
<1>1. CASE Midnight \/ UNCHANGED vars
  <2>1. tick.files \subseteq saved \ young
    BY DEF Safe, Owned
  <2> QED
    BY <1>1, <2>1, QuietSafe DEF Midnight, vars, moveVars, browserVars
<1> QED
  BY <1>1, BrowserSafe, BeginSafe, HostSafe, AgentSafe, FaultSafe DEF Next

LEMMA SafeInit == Init => Safe
BY DEF Init, MoveInit, Safe, Owned, Sources, Copies, SnapshotKept, DownloadsRowsTrue,
       Moving, MovePcs, IdleWorker, IdleHost, IdleTick, Workers

(***************************************************************************)
(* The invariant holds in every state, if no invocation is slow.           *)
(***************************************************************************)
THEOREM SafeAlways == ~SlowHosts => (Spec => [](TypeInv /\ Safe))
<1> SUFFICES ASSUME ~SlowHosts
             PROVE  Spec => [](TypeInv /\ Safe)
  OBVIOUS
<1>1. Init => TypeInv /\ Safe
  BY InitTyped, SafeInit
  DEF TypeInv, WorkTyped, HostsHold, Init, MoveInit, IdleWorker, IdleHost, MovePcs
<1>2. TypeInv /\ Safe /\ [Next]_vars => (TypeInv /\ Safe)'
  BY TypeKept, SafeKept
<1> QED
  BY <1>1, <1>2, PTL DEF Spec

(***************************************************************************)
(* No snapshot is lost: whatever step a move, a tick or an invocation is   *)
(* killed in, the source is still there or the copy is whole.              *)
(***************************************************************************)
THEOREM NoSnapshotLost == ~SlowHosts => (Spec => []SnapshotKept)
BY SafeAlways, PTL DEF Safe

(***************************************************************************)
(* An event row that names the Downloads folder tells the truth.           *)
(***************************************************************************)
THEOREM DownloadsRowsCorrect == ~SlowHosts => (Spec => []DownloadsRowsTrue)
BY SafeAlways, PTL DEF Safe

(***************************************************************************)
(* The lines.  LogSafe: what the merge has in hand covers the orphan log   *)
(* that it will remove.                                                    *)
(***************************************************************************)
LogSafe ==
    /\ \A d \in Dates : sealedLog[d].mode = "absent" => sealedLog[d].lines = {}
    /\ \A d \in Dates : IsFirst(d, tick.dates) =>
          /\ tick.pc = "append" => log[d] \subseteq tick.body
          /\ tick.pc \in {"append", "relock", "unlink"} => sealedLog[d].mode # "absent"
          /\ tick.pc \in {"relock", "unlink"} => log[d] \subseteq sealedLog[d].lines

LogStep == \A d \in Dates : LinesOf(d) \subseteq LinesOf(d)'

LEMMA FirstUnique ==
    ASSUME NEW S \in SUBSET Dates, NEW d, NEW e, IsFirst(d, S), IsFirst(e, S)
    PROVE  d = e
<1>1. d \in Nat /\ e \in Nat /\ d <= e /\ e <= d
  BY LastDateAssumption DEF IsFirst, Dates
<1> QED
  BY <1>1

(* A step that leaves the logs alone, and begins or ends what it merges.   *)
LEMMA LogQuiet ==
    ASSUME TypeInv, LogSafe, UNCHANGED logVars,
           \/ tick' = tick
           \/ tick'.pc \notin {"append", "relock", "unlink"}
    PROVE  LogSafe' /\ LogStep
BY DEF LogSafe, LogStep, LinesOf, logVars, IsFirst

LEMMA LogHost ==
    ASSUME ~LateMerge, TypeInv, LogSafe, tick' = tick, sealedLog' = sealedLog,
           NEW d \in Dates, NEW l, AppendLine(d, l)
    PROVE  LogSafe' /\ LogStep
<1>1. /\ \A e \in Dates \ {d} : log'[e] = log[e]
      /\ log'[d] = log[d] \cup {l} /\ ~Merging(d)
  BY DEF AppendLine, TypeInv, TypeOK
<1>2. tick.pc \in {"append", "relock", "unlink"} => ~IsFirst(d, tick.dates)
  BY <1>1 DEF Merging, IsFirst
<1>3. LogStep
  BY <1>1 DEF LogStep, LinesOf
<1> QED
  BY <1>1, <1>2, <1>3 DEF LogSafe, IsFirst

LEMMA LogAgent ==
    ASSUME TypeInv, LogSafe, NEW d \in Dates,
           \/ SealDay(d) \/ MoveLog(d) \/ LockLog(d) \/ FlipSealed(d)
           \/ MergeLog(d) \/ AppendOrphan(d) \/ RelockLog(d) \/ UnlinkOrphan(d)
           \/ VerifyDay(d)
    PROVE  LogSafe' /\ LogStep
<1>0. /\ tick \in Tick /\ tick.dates \in SUBSET Dates
      /\ log \in [Dates -> SUBSET Lines]
      /\ sealedLog \in [Dates -> [mode  : {"absent", "writable", "readonly"},
                                  lines : SUBSET Lines]]
  BY DEF TypeInv, TypeOK, Tick
<1>1. CASE \/ SealDay(d) \/ FlipSealed(d) \/ VerifyDay(d)
           \/ (MoveLog(d) /\ UNCHANGED logVars)
  <2>1. tick'.pc \notin {"append", "relock", "unlink"} /\ UNCHANGED logVars
    BY <1>0, <1>1
    DEF SealDay, FlipSealed, VerifyDay, MoveLog, TickGoto, NextDate, Tick
  <2> QED
    BY <2>1, LogQuiet
<1>2. CASE MoveLog(d) /\ ~UNCHANGED logVars
  <2>1. /\ sealedLog[d].mode = "absent"
        /\ sealedLog' = [sealedLog EXCEPT ![d] = [mode |-> "writable", lines |-> log[d]]]
        /\ log' = [log EXCEPT ![d] = {}]
        /\ tick'.pc = "locklog"
    BY <1>0, <1>2 DEF MoveLog, TickGoto, Tick
  <2> QED
    BY <1>0, <2>1 DEF LogSafe, LogStep, LinesOf
<1>3. CASE LockLog(d)
  <2>1. /\ sealedLog' = [sealedLog EXCEPT ![d].mode = "readonly"]
        /\ log' = log /\ tick'.pc = "flip"
    BY <1>0, <1>3 DEF LockLog, TickGoto, Tick
  <2> QED
    BY <1>0, <2>1 DEF LogSafe, LogStep, LinesOf
<1>4. CASE MergeLog(d)
  <2>1. CASE sealedLog[d].mode # "absent"
    <3>1. /\ sealedLog' = [sealedLog EXCEPT ![d].mode = "writable"] /\ log' = log
          /\ tick'.pc = "append" /\ tick'.body = log[d] /\ tick'.dates = tick.dates
          /\ IsFirst(d, tick.dates)
      BY <1>0, <1>4, <2>1 DEF MergeLog, Tick
    <3>2. \A e \in Dates : IsFirst(e, tick.dates) => e = d
      BY <1>0, <3>1, FirstUnique
    <3> QED
      BY <1>0, <3>1, <3>2 DEF LogSafe, LogStep, LinesOf
  <2>2. CASE sealedLog[d].mode = "absent"
    <3>1. tick'.pc = "merge" /\ UNCHANGED logVars
      BY <1>0, <1>4, <2>2 DEF MergeLog, NextDate, Tick, logVars
    <3> QED
      BY <3>1, LogQuiet
  <2> QED
    BY <2>1, <2>2
<1>5. CASE AppendOrphan(d)
  <2>1. /\ sealedLog' = [sealedLog EXCEPT ![d].lines = @ \cup tick.body] /\ log' = log
        /\ tick.pc = "append" /\ tick'.pc = "relock" /\ tick'.dates = tick.dates
        /\ IsFirst(d, tick.dates)
    BY <1>0, <1>5 DEF AppendOrphan, TickGoto, Tick
  <2>2. \A e \in Dates : IsFirst(e, tick.dates) => e = d
    BY <1>0, <2>1, FirstUnique
  <2> QED
    BY <1>0, <2>1, <2>2 DEF LogSafe, LogStep, LinesOf
<1>6. CASE RelockLog(d)
  <2>1. /\ sealedLog' = [sealedLog EXCEPT ![d].mode = "readonly"] /\ log' = log
        /\ tick.pc = "relock" /\ tick'.pc = "unlink" /\ tick'.dates = tick.dates
        /\ IsFirst(d, tick.dates)
    BY <1>0, <1>6 DEF RelockLog, TickGoto, Tick
  <2>2. \A e \in Dates : IsFirst(e, tick.dates) => e = d
    BY <1>0, <2>1, FirstUnique
  <2> QED
    BY <1>0, <2>1, <2>2 DEF LogSafe, LogStep, LinesOf
<1>7. CASE UnlinkOrphan(d)
  <2>1. /\ log' = [log EXCEPT ![d] = {}] /\ sealedLog' = sealedLog
        /\ tick.pc = "unlink" /\ tick'.pc = "merge" /\ IsFirst(d, tick.dates)
    BY <1>0, <1>7 DEF UnlinkOrphan, NextDate, Tick
  <2> QED
    BY <1>0, <2>1 DEF LogSafe, LogStep, LinesOf
<1> QED
  BY <1>1, <1>2, <1>3, <1>4, <1>5, <1>6, <1>7

LEMMA LogKept == ~LateMerge /\ TypeInv /\ LogSafe /\ [Next]_vars => LogSafe' /\ LogStep
<1> SUFFICES ASSUME ~LateMerge, TypeInv, LogSafe, [Next]_vars
             PROVE  LogSafe' /\ LogStep
  OBVIOUS
<1>0. tick \in Tick /\ host \in [Hosts -> Invocation]
  BY DEF TypeInv, TypeOK
<1>1. ASSUME NEW f \in Files, SaveSnapshot(f) \/ GrowsOld(f)
      PROVE  LogSafe' /\ LogStep
  BY <1>1, LogQuiet DEF SaveSnapshot, GrowsOld
<1>2. CASE Midnight \/ UNCHANGED vars
  BY <1>2, LogQuiet DEF Midnight, vars
<1>3. ASSUME NEW h \in Hosts, NEW f \in Files, HostBegins(h, f)
      PROVE  LogSafe' /\ LogStep
  BY <1>3, LogQuiet DEF HostBegins
<1>4. ASSUME NEW h \in Hosts, HostRuns(h)
      PROVE  LogSafe' /\ LogStep
  <2>1. CASE AppendAction(h) \/ AppendResult(h)
    <3>1. host[h].date \in Dates
      BY <1>0 DEF Invocation
    <3> QED
      BY <2>1, <3>1, LogHost DEF AppendAction, AppendResult
  <2> QED
    BY <1>4, <2>1, LogQuiet
    DEF HostRuns, InsertToday, StoreEvent, ArchiveForTag, HostMoves
<1>5. CASE AgentRuns
  <2>1. CASE TickBegins \/ SweepEnds \/ SealEnds \/ MergeEnds \/ TickEnds
    <3>1. tick'.pc \notin {"append", "relock", "unlink"}
      <4>1. CASE TickBegins
        BY <4>1 DEF TickBegins, IdleTick
      <4>2. /\ IdleTick.pc = "idle" /\ EnterSeal.pc = "seal"
            /\ EnterMerge.pc = "merge" /\ EnterVerify.pc = "verify"
        BY DEF IdleTick, EnterSeal, EnterMerge, EnterVerify
      <4> QED
        BY <2>1, <4>1, <4>2 DEF SweepEnds, SealEnds, MergeEnds, TickEnds
    <3> QED
      BY <2>1, <3>1, LogQuiet DEF TickBegins, SweepEnds, SealEnds, MergeEnds, TickEnds
  <2>2. CASE SweepFile \/ SweepMoves \/ SealManifest
    <3>1. tick' = tick \/ tick'.pc \notin {"append", "relock", "unlink"}
      BY <1>0, <2>2 DEF SweepFile, SweepMoves, SealManifest, TickGoto, NextDate, Tick
    <3> QED
      BY <2>2, <3>1, LogQuiet DEF SweepFile, SweepMoves, SealManifest
  <2> QED
    BY <1>5, <2>1, <2>2, LogAgent DEF AgentRuns
<1>6. CASE Fault
  <2>1. tick' = tick \/ tick'.pc \notin {"append", "relock", "unlink"}
    <3>1. CASE SealThrows \/ MergeThrows
      BY <1>0, <3>1 DEF SealThrows, MergeThrows, NextDate, Tick
    <3>2. CASE AgentKilled
      BY <3>2 DEF AgentKilled, IdleTick
    <3> QED
      BY <1>6, <3>1, <3>2 DEF Fault, StepThrows, StoreFails, HostKilled
  <2>2. UNCHANGED logVars
    BY <1>6
    DEF Fault, StepThrows, StoreFails, HostKilled, SealThrows, MergeThrows, AgentKilled
  <2> QED
    BY <2>1, <2>2, LogQuiet
<1> QED
  BY <1>1, <1>2, <1>3, <1>4, <1>5, <1>6 DEF Next

(***************************************************************************)
(* No line of a day's log is lost, through the seal, the merge of orphans  *)
(* and failures, as long as no invocation appends to a log being merged.   *)
(***************************************************************************)
THEOREM NoLineLost == ~LateMerge => (Spec => LinesKept)
<1> SUFFICES ASSUME ~LateMerge
             PROVE  Spec => LinesKept
  OBVIOUS
<1>1. Init => TypeInv /\ LogSafe
  BY InitTyped
  DEF TypeInv, WorkTyped, HostsHold, Init, MoveInit, IdleWorker, IdleHost, MovePcs,
      LogSafe, NoLog, IdleTick, IsFirst
<1>2. TypeInv /\ LogSafe /\ [Next]_vars => (TypeInv /\ LogSafe)' /\ LogStep
  BY TypeKept, LogKept
<1>3. LogStep => [\A d \in Dates : LinesOf(d) \subseteq LinesOf(d)']_vars
  BY DEF LogStep
<1> QED
  BY <1>1, <1>2, <1>3, PTL DEF Spec, LinesKept
=============================================================================
