----------------------------- MODULE Snapshots ------------------------------
(***************************************************************************)
(* The snapshots and the day logs of one laptop: the browser, which saves  *)
(* snapshots to the Downloads folder and sends the host a message for      *)
(* each; the native host (BVLHost), which logs the message, stores it and  *)
(* moves the snapshot to the archive; and the housekeeping agent           *)
(* (BVLVerifier), whose tick sweeps Downloads, seals the days that are     *)
(* over, merges orphan logs and verifies the sealed days.                  *)
(*                                                                         *)
(* launchd starts one agent at a time; the sealer and the verifier run by  *)
(* hand are left out.  A day's log is the set of its lines: appending is   *)
(* atomic, order and repetition are not represented.  Messages without a   *)
(* snapshot are left out: they only add lines.                             *)
(***************************************************************************)
EXTENDS SnapshotMove

CONSTANTS
    SlowHosts,  \* TRUE: an invocation may come, or still run, when its
                \* snapshot is old enough to be swept
    LateMerge,  \* TRUE: an invocation may append to a log being merged
    MaxFaults   \* failures in a behaviour (bound)

ASSUME SlowHostsAssumption == SlowHosts \in BOOLEAN
ASSUME LateMergeAssumption == LateMerge \in BOOLEAN
ASSUME MaxFaultsAssumption == MaxFaults \in Nat

VARIABLES
    today,      \* the current UTC day
    saved,      \* snapshots that the browser has saved
    young,      \* those less than BVL_MOVER_MIN_AGE_SECONDS old
    sent,       \* snapshots whose message has reached a host
    host,       \* host[h]: an invocation of BVLHost
    log,        \* log[d]: the lines of ~/browser-visits-<d>.log, {} if absent
    sealedLog,  \* sealedLog[d]: the log in the directory of day d
    flagged,    \* days with a manifest_invalid row in mover_errors
    tick,       \* the agent
    faults      \* failures so far

browserVars == <<today, saved, young, sent>>
logVars == <<log, sealedLog>>
vars == <<moveVars, browserVars, host, logVars, flagged, tick, faults>>

(* Each invocation writes an action line and a result line.                *)
Lines == Files \X {"action", "result"}

NoLog == [mode |-> "absent", lines |-> {}]
IdleHost == [pc |-> "idle", file |-> NoFile, date |-> 1]
IdleTick == [pc |-> "idle", files |-> {}, dates |-> {}, body |-> {}]

Invocation == [pc   : {"idle", "pinned", "logged", "day", "stored", "moving", "done"},
               file : Files \cup {NoFile},
               date : Dates]

Tick == [pc    : {"idle", "sweep", "moving", "seal", "manifest", "movelog", "locklog",
                  "flip", "merge", "append", "relock", "unlink", "verify"},
         files : SUBSET Files,
         dates : SUBSET Dates,
         body  : SUBSET Lines]

TypeOK ==
    /\ MoveTypeOK
    /\ today \in Dates
    /\ saved \in SUBSET Files /\ young \in SUBSET Files /\ sent \in SUBSET Files
    /\ host \in [Hosts -> Invocation]
    /\ log \in [Dates -> SUBSET Lines]
    /\ sealedLog \in [Dates -> [mode  : {"absent", "writable", "readonly"},
                                lines : SUBSET Lines]]
    /\ flagged \in SUBSET Dates
    /\ tick \in Tick
    /\ faults \in Nat

Init ==
    /\ MoveInit
    /\ today = 1
    /\ saved = {} /\ young = {} /\ sent = {}
    /\ host = [h \in Hosts |-> IdleHost]
    /\ log = [d \in Dates |-> {}]
    /\ sealedLog = [d \in Dates |-> NoLog]
    /\ flagged = {}
    /\ tick = IdleTick
    /\ faults = 0

(***************************************************************************)
(* The browser and the clock.  The day in a snapshot's name is that of the *)
(* click; the download may end later, even on a later day.                 *)
(***************************************************************************)
SaveSnapshot(f) ==
    /\ f \notin saved
    /\ DayOf[f] <= today
    /\ saved' = saved \cup {f}
    /\ young' = young \cup {f}
    /\ downloads' = downloads \cup {f}
    /\ UNCHANGED <<archive, place, row, manifest, work, today, sent, host,
                   logVars, flagged, tick, faults>>

InHand(f) == \E h \in Hosts : host[h].pc # "idle" /\ host[h].file = f

GrowsOld(f) ==
    /\ f \in young
    /\ SlowHosts \/ ~InHand(f)
    /\ young' = young \ {f}
    /\ UNCHANGED <<moveVars, today, saved, sent, host, logVars, flagged, tick, faults>>

Midnight ==
    /\ today < LastDate
    /\ today' = today + 1
    /\ UNCHANGED <<moveVars, saved, young, sent, host, logVars, flagged, tick, faults>>

(***************************************************************************)
(* The native host: one message, for a read or skimmed page.               *)
(***************************************************************************)
HostGoto(h, pc) == host' = [host EXCEPT ![h].pc = pc]

HostBegins(h, f) ==
    /\ host[h].pc = "idle"
    /\ f \in saved \ sent
    /\ SlowHosts \/ f \in young
    /\ sent' = sent \cup {f}
    /\ host' = [host EXCEPT ![h] = [pc |-> "pinned", file |-> f, date |-> today]]
    /\ UNCHANGED <<moveVars, today, saved, young, logVars, flagged, tick, faults>>

Merging(d) == tick.pc \in {"append", "relock", "unlink"} /\ d \in tick.dates
                /\ \A e \in tick.dates : d <= e

AppendLine(d, l) ==
    /\ LateMerge \/ ~Merging(d)
    /\ log' = [log EXCEPT ![d] = @ \cup {l}]

AppendAction(h) ==
    /\ host[h].pc = "pinned"
    /\ AppendLine(host[h].date, <<host[h].file, "action">>)
    /\ HostGoto(h, "logged")
    /\ UNCHANGED <<moveVars, browserVars, sealedLog, flagged, tick, faults>>

InsertToday(h) ==
    /\ host[h].pc = "logged"
    /\ InsertRow(host[h].date)
    /\ HostGoto(h, "day")
    /\ UNCHANGED <<downloads, archive, place, manifest, work, browserVars, logVars,
                   flagged, tick, faults>>

(* The transaction; the event row names the Downloads folder.              *)
StoreEvent(h) ==
    /\ host[h].pc = "day"
    /\ place' = [place EXCEPT ![host[h].file] = "downloads"]
    /\ HostGoto(h, "stored")
    /\ UNCHANGED <<downloads, archive, row, manifest, work, browserVars, logVars,
                   flagged, tick, faults>>

(* Archive.forTag: a file that is not there is skipped.                    *)
ArchiveForTag(h) ==
    LET f == host[h].file IN
    /\ host[h].pc = "stored"
    /\ IF f \in downloads
       THEN StartMove(h, f) /\ HostGoto(h, "moving")
       ELSE work' = work /\ HostGoto(h, "done")
    /\ UNCHANGED <<downloads, archive, place, row, manifest, browserVars, logVars,
                   flagged, tick, faults>>

HostMoves(h) ==
    /\ host[h].pc = "moving"
    /\ \/ WorkerRuns(h) /\ host' = host
       \/ work[h].pc = "idle" /\ HostGoto(h, "done") /\ UNCHANGED moveVars
    /\ UNCHANGED <<browserVars, logVars, flagged, tick, faults>>

AppendResult(h) ==
    /\ host[h].pc = "done"
    /\ AppendLine(host[h].date, <<host[h].file, "result">>)
    /\ host' = [host EXCEPT ![h] = IdleHost]
    /\ UNCHANGED <<moveVars, browserVars, sealedLog, flagged, tick, faults>>

HostRuns(h) ==
    \/ AppendAction(h) \/ InsertToday(h) \/ StoreEvent(h)
    \/ ArchiveForTag(h) \/ HostMoves(h) \/ AppendResult(h)

(***************************************************************************)
(* The agent's tick.  Each pass takes its list at the start and works it   *)
(* off; the dates go in order.                                             *)
(***************************************************************************)
IsFirst(d, S) == d \in S /\ \A e \in S : d <= e
Past == {d \in Dates : d < today}

EnterSeal == [IdleTick EXCEPT !.pc = "seal",
                              !.dates = {d \in Past : row[d] = "open"}]
EnterMerge == [IdleTick EXCEPT !.pc = "merge",
                               !.dates = {d \in Past : log[d] # {}}]
EnterVerify == [IdleTick EXCEPT !.pc = "verify",
                                !.dates = {d \in Dates : row[d] = "sealed"}]

TickGoto(pc) == tick' = [tick EXCEPT !.pc = pc]
NextDate(pc) == tick' = [tick EXCEPT !.pc = pc, !.body = {},
                                     !.dates = {e \in @ : \E d \in @ : d < e}]

(* Mutant of TickBegins: the age is compared the wrong way round.          *)
TickBeginsYoung ==
    /\ tick.pc = "idle"
    /\ tick' = [IdleTick EXCEPT !.pc = "sweep", !.files = young]
    /\ UNCHANGED <<moveVars, browserVars, host, logVars, flagged, faults>>

(* Sweep.pass                                                              *)
TickBegins ==
    /\ tick.pc = "idle"
    /\ tick' = [IdleTick EXCEPT !.pc = "sweep", !.files = downloads \ young]
    /\ UNCHANGED <<moveVars, browserVars, host, logVars, flagged, faults>>

SweepFile ==
    /\ tick.pc = "sweep"
    /\ \E f \in tick.files :
          IF f \in downloads
          THEN /\ StartMove(Agent, f)
               /\ tick' = [tick EXCEPT !.pc = "moving", !.files = @ \ {f}]
          ELSE work' = work /\ tick' = [tick EXCEPT !.files = @ \ {f}]
    /\ UNCHANGED <<downloads, archive, place, row, manifest, browserVars, host,
                   logVars, flagged, faults>>

SweepMoves ==
    /\ tick.pc = "moving"
    /\ \/ WorkerRuns(Agent) /\ tick' = tick
       \/ work[Agent].pc = "idle" /\ TickGoto("sweep") /\ UNCHANGED moveVars
    /\ UNCHANGED <<browserVars, host, logVars, flagged, faults>>

SweepEnds ==
    /\ tick.pc = "sweep"
    /\ tick.files = {}
    /\ tick' = EnterSeal
    /\ UNCHANGED <<moveVars, browserVars, host, logVars, flagged, faults>>

(* Seal.pass                                                               *)
SealDay(d) ==
    /\ tick.pc = "seal"
    /\ IsFirst(d, tick.dates)
    /\ StartManifest(Agent, d)
    /\ TickGoto("manifest")
    /\ UNCHANGED <<downloads, archive, place, row, manifest, browserVars, host,
                   logVars, flagged, faults>>

SealManifest ==
    /\ tick.pc = "manifest"
    /\ \/ WorkerRuns(Agent) /\ tick' = tick
       \/ /\ work[Agent].pc = "idle"
          /\ IF work[Agent].ok THEN TickGoto("movelog") ELSE NextDate("seal")
          /\ UNCHANGED moveVars
    /\ UNCHANGED <<browserVars, host, logVars, flagged, faults>>

(* Mutant of MoveLog: a log already in the directory is replaced.          *)
MoveLogReplacing(d) ==
    /\ tick.pc = "movelog"
    /\ IsFirst(d, tick.dates)
    /\ IF log[d] = {} THEN TickGoto("flip") /\ UNCHANGED logVars
       ELSE /\ sealedLog' = [sealedLog EXCEPT ![d] = [mode |-> "writable",
                                                      lines |-> log[d]]]
            /\ log' = [log EXCEPT ![d] = {}]
            /\ TickGoto("locklog")
    /\ UNCHANGED <<moveVars, browserVars, host, flagged, faults>>

(* moveItem throws if the directory has a log already.                     *)
MoveLog(d) ==
    /\ tick.pc = "movelog"
    /\ IsFirst(d, tick.dates)
    /\ IF log[d] = {} THEN TickGoto("flip") /\ UNCHANGED logVars
       ELSE IF sealedLog[d].mode # "absent" THEN NextDate("seal") /\ UNCHANGED logVars
       ELSE /\ sealedLog' = [sealedLog EXCEPT ![d] = [mode |-> "writable",
                                                      lines |-> log[d]]]
            /\ log' = [log EXCEPT ![d] = {}]
            /\ TickGoto("locklog")
    /\ UNCHANGED <<moveVars, browserVars, host, flagged, faults>>

LockLog(d) ==
    /\ tick.pc = "locklog"
    /\ IsFirst(d, tick.dates)
    /\ sealedLog' = [sealedLog EXCEPT ![d].mode = "readonly"]
    /\ TickGoto("flip")
    /\ UNCHANGED <<moveVars, browserVars, host, log, flagged, faults>>

(* Mutant of FlipSealed: a third value of the column.                      *)
FlipClosed(d) ==
    /\ tick.pc = "flip"
    /\ IsFirst(d, tick.dates)
    /\ row' = [row EXCEPT ![d] = "closed"]
    /\ NextDate("seal")
    /\ UNCHANGED <<downloads, archive, place, manifest, work, browserVars, host,
                   logVars, flagged, faults>>

FlipSealed(d) ==
    /\ tick.pc = "flip"
    /\ IsFirst(d, tick.dates)
    /\ row' = [row EXCEPT ![d] = "sealed"]
    /\ NextDate("seal")
    /\ UNCHANGED <<downloads, archive, place, manifest, work, browserVars, host,
                   logVars, flagged, faults>>

SealEnds ==
    /\ tick.pc = "seal"
    /\ tick.dates = {}
    /\ tick' = EnterMerge
    /\ UNCHANGED <<moveVars, browserVars, host, logVars, flagged, faults>>

(* OrphanLog.mergePass                                                     *)
MergeLog(d) ==
    /\ tick.pc = "merge"
    /\ IsFirst(d, tick.dates)
    /\ IF sealedLog[d].mode # "absent"
       THEN /\ sealedLog' = [sealedLog EXCEPT ![d].mode = "writable"]
            /\ tick' = [tick EXCEPT !.pc = "append", !.body = log[d]]
            /\ row' = row
       ELSE InsertRow(d) /\ NextDate("merge") /\ UNCHANGED sealedLog
    /\ UNCHANGED <<downloads, archive, place, manifest, work, browserVars, host,
                   log, flagged, faults>>

AppendOrphan(d) ==
    /\ tick.pc = "append"
    /\ IsFirst(d, tick.dates)
    /\ sealedLog' = [sealedLog EXCEPT ![d].lines = @ \cup tick.body]
    /\ TickGoto("relock")
    /\ UNCHANGED <<moveVars, browserVars, host, log, flagged, faults>>

RelockLog(d) ==
    /\ tick.pc = "relock"
    /\ IsFirst(d, tick.dates)
    /\ sealedLog' = [sealedLog EXCEPT ![d].mode = "readonly"]
    /\ TickGoto("unlink")
    /\ UNCHANGED <<moveVars, browserVars, host, log, flagged, faults>>

(* Mutant of UnlinkOrphan: the merged log stays in LOG_DIR.                *)
LeaveOrphan(d) ==
    /\ tick.pc = "unlink"
    /\ IsFirst(d, tick.dates)
    /\ NextDate("merge")
    /\ UNCHANGED <<moveVars, browserVars, host, logVars, flagged, faults>>

UnlinkOrphan(d) ==
    /\ tick.pc = "unlink"
    /\ IsFirst(d, tick.dates)
    /\ log' = [log EXCEPT ![d] = {}]
    /\ NextDate("merge")
    /\ UNCHANGED <<moveVars, browserVars, host, sealedLog, flagged, faults>>

MergeEnds ==
    /\ tick.pc = "merge"
    /\ tick.dates = {}
    /\ tick' = EnterVerify
    /\ UNCHANGED <<moveVars, browserVars, host, logVars, flagged, faults>>

(* verifyAllSealed: the ten checks of a day are one step.                  *)
Valid(d) ==
    /\ manifest[d].mode = "readonly"
    /\ manifest[d].lists = Present(d)
    /\ \A f \in Present(d) : LookupEvent(f)
    /\ sealedLog[d].mode = "readonly"

(* Mutant of VerifyDay: a day found valid keeps its row.                   *)
VerifyNeverClears(d) ==
    /\ tick.pc = "verify"
    /\ IsFirst(d, tick.dates)
    /\ flagged' = IF Valid(d) THEN flagged ELSE flagged \cup {d}
    /\ NextDate("verify")
    /\ UNCHANGED <<moveVars, browserVars, host, logVars, faults>>

VerifyDay(d) ==
    /\ tick.pc = "verify"
    /\ IsFirst(d, tick.dates)
    /\ flagged' = IF Valid(d) THEN flagged \ {d} ELSE flagged \cup {d}
    /\ NextDate("verify")
    /\ UNCHANGED <<moveVars, browserVars, host, logVars, faults>>

TickEnds ==
    /\ tick.pc = "verify"
    /\ tick.dates = {}
    /\ tick' = IdleTick
    /\ UNCHANGED <<moveVars, browserVars, host, logVars, flagged, faults>>

AgentRuns ==
    \/ TickBegins \/ SweepFile \/ SweepMoves \/ SweepEnds
    \/ SealManifest \/ SealEnds \/ MergeEnds \/ TickEnds
    \/ \E d \in Dates :
          \/ SealDay(d) \/ MoveLog(d) \/ LockLog(d) \/ FlipSealed(d)
          \/ MergeLog(d) \/ AppendOrphan(d) \/ RelockLog(d) \/ UnlinkOrphan(d)
          \/ VerifyDay(d)

(***************************************************************************)
(* Failures: a step throws and is caught, or a process is killed.          *)
(***************************************************************************)
StepThrows(p) ==
    /\ WorkerFails(p)
    /\ UNCHANGED <<browserVars, host, logVars, flagged, tick>>

(* The database write fails: the event is not stored, nothing is archived. *)
StoreFails(h) ==
    /\ host[h].pc \in {"logged", "day"}
    /\ HostGoto(h, "done")
    /\ UNCHANGED <<moveVars, browserVars, logVars, flagged, tick>>

HostKilled(h) ==
    /\ host[h].pc # "idle"
    /\ host' = [host EXCEPT ![h] = IdleHost]
    /\ CutShort(h)
    /\ UNCHANGED <<browserVars, logVars, flagged, tick>>

(* The statements after the manifest; and the steps of the merge.          *)
SealThrows ==
    /\ tick.pc \in {"movelog", "locklog", "flip"}
    /\ NextDate("seal")
    /\ UNCHANGED <<moveVars, browserVars, host, logVars, flagged>>

MergeThrows ==
    /\ tick.pc \in {"append", "relock", "unlink"}
    /\ NextDate("merge")
    /\ UNCHANGED <<moveVars, browserVars, host, logVars, flagged>>

AgentKilled ==
    /\ tick.pc # "idle"
    /\ tick' = IdleTick
    /\ CutShort(Agent)
    /\ UNCHANGED <<browserVars, host, logVars, flagged>>

Fault ==
    /\ faults < MaxFaults
    /\ faults' = faults + 1
    /\ \/ \E p \in Workers : StepThrows(p)
       \/ \E h \in Hosts : StoreFails(h) \/ HostKilled(h)
       \/ SealThrows \/ MergeThrows \/ AgentKilled

Next ==
    \/ \E f \in Files : SaveSnapshot(f) \/ GrowsOld(f)
    \/ Midnight
    \/ \E h \in Hosts : (\E f \in Files : HostBegins(h, f)) \/ HostRuns(h)
    \/ AgentRuns
    \/ Fault

Spec == Init /\ [][Next]_vars

(***************************************************************************)
(* Fairness.  Time passes for a snapshot; an invocation runs to its end;   *)
(* launchd starts the agent again and again, and a tick runs to its end.   *)
(* The browser, midnight and failures are free.                            *)
(***************************************************************************)
Fairness ==
    /\ \A f \in Files : WF_vars(GrowsOld(f))
    /\ \A h \in Hosts : WF_vars(HostRuns(h))
    /\ WF_vars(AgentRuns)

FairSpec == Spec /\ Fairness
=============================================================================
