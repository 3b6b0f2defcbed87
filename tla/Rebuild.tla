------------------------------ MODULE Rebuild -------------------------------
(***************************************************************************)
(* visits_rebuilder.py, which drops the tables of the visits database and  *)
(* rebuilds them from the day logs and the snapshot archive, beside the    *)
(* processes that share its files: invocations of the native host, the     *)
(* sealing programs of PySeal, and the user, who cleans up the archive.    *)
(*                                                                         *)
(* A log file is read in one step and replayed line by line.  Abstracted:  *)
(* malformed lines (the host writes none), the printed statistics, and     *)
(* that a replay killed before its commit is rolled back: the model keeps  *)
(* the lines replayed so far, and a rebuild from there covers both cases.  *)
(* A dropped table is an empty one.                                        *)
(***************************************************************************)
EXTENDS PySeal

CONSTANTS
    Options,        \* the options a rebuild is called with
    UserDeletes,    \* TRUE: the user may delete manifests
    LateMerge,      \* TRUE: an invocation may append to a log being merged
    MaxFaults       \* failures in a behaviour (bound)

ASSUME OptionsAssumption ==
    Options \subseteq [truncate : BOOLEAN, log : BOOLEAN, rehydrate : BOOLEAN]
ASSUME UserDeletesAssumption == UserDeletes \in BOOLEAN
ASSUME LateMergeAssumption == LateMerge \in BOOLEAN
ASSUME MaxFaultsAssumption == MaxFaults \in Nat

VARIABLES
    host,       \* host[i]: how far invocation i is
    written,    \* lines that were appended to a log
    stored,     \* invocations whose transaction was committed
    deleted,    \* days whose manifest the user, or a program that is to
                \* write it again, has deleted, and that have none since
    resealed,   \* days taken up by a sealer although their log was in the
                \* archive and lines of theirs in LOG_DIR, or still to come
    copied,     \* snapshots in the archive whose row nobody has updated
    torn,       \* TRUE from a DROP that left tables which do not agree
    lossy,      \* TRUE from the first DROP to the next complete replay
    stale,      \* TRUE from a DROP or a replay to the next rehydration
    reb,        \* the rebuilder
    faults      \* failures so far

historyVars == <<written, stored, deleted, resealed, copied, torn, lossy, stale>>
vars == <<today, archiveVars, sealer, host, historyVars, reb, faults>>

Sources == {"icloud", "log_dir"}
IdleReb == [pc |-> "idle", log |-> FALSE, rehydrate |-> FALSE,
            files |-> {}, lines |-> <<>>, pending |-> {}, skipped |-> FALSE,
            quiet |-> FALSE, moved |-> FALSE]

Archiving == {"copied", "placed", "open", "late", "straggler", "rewriting"}
HostPcs == {"new", "logged", "stored", "failed", "moved", "over"} \cup Archiving
Dropping == {"drop", "drop_read", "drop_skimmed", "drop_rows"}
RebPcs == {"idle", "collect", "collect_log", "replay", "rehydrate", "done"} \cup Dropping

TypeOK ==
    /\ SealTypeOK
    /\ host \in [Invs -> HostPcs]
    /\ written \in SUBSET Lines
    /\ stored \in SUBSET Invs
    /\ deleted \in SUBSET Dates /\ resealed \in SUBSET Dates
    /\ copied \in SUBSET Invs
    /\ torn \in BOOLEAN /\ lossy \in BOOLEAN /\ stale \in BOOLEAN
    /\ reb \in [pc : RebPcs, log : BOOLEAN, rehydrate : BOOLEAN,
                files : SUBSET (Dates \X Sources), lines : Seq(Lines),
                pending : SUBSET Invs, skipped : BOOLEAN,
                quiet : BOOLEAN, moved : BOOLEAN]
    /\ faults \in Nat

Init ==
    /\ SealInit
    /\ host = [i \in Invs |-> "new"]
    /\ written = {} /\ stored = {}
    /\ deleted = {} /\ resealed = {} /\ copied = {}
    /\ torn = FALSE /\ lossy = FALSE /\ stale = FALSE
    /\ reb = IdleReb
    /\ faults = 0

(* A rebuild from empty tables is quiet until another process changes what *)
(* it reads or writes.                                                     *)
Disturb == reb' = [reb EXCEPT !.quiet = FALSE]

(***************************************************************************)
(* The native host, one process per message, and the clock.                *)
(***************************************************************************)
Merging(d) == sealer.pc = "unlink" /\ IsFirst(d, sealer.dates)

AppendLine(i, half) ==
    LET l == [id |-> i, half |-> half] IN
    /\ LateMerge \/ ~Merging(DayOf[i])
    /\ log' = [log EXCEPT ![DayOf[i]] = Append(@, l)]
    /\ written' = written \cup {l}
    /\ Disturb

HostLogs(i) ==
    /\ host[i] = "new"
    /\ today = DayOf[i]
    /\ AppendLine(i, "action")
    /\ host' = [host EXCEPT ![i] = "logged"]
    /\ UNCHANGED <<today, sealedLog, dir, manifest, db, place, row, errs, sealer,
                   stored, deleted, resealed, copied, torn, lossy, stale, faults>>

HostStores(i) ==
    /\ host[i] = "logged"
    /\ row' = WithRow(DayOf[i])
    /\ db' = HostWrite(db, Msg[i])
    /\ place' = IF Msg[i].kind \in Tags THEN [place EXCEPT ![i] = "downloads"] ELSE place
    /\ stored' = stored \cup {i}
    /\ host' = [host EXCEPT ![i] = "stored"]
    /\ Disturb
    /\ UNCHANGED <<today, log, sealedLog, dir, manifest, errs, sealer, written,
                   deleted, resealed, copied, torn, lossy, stale, faults>>

(* moveOne: the snapshot is copied into the day's directory ...            *)
HostCopies(i) ==
    /\ host[i] = "stored"
    /\ Msg[i].kind \in Tags
    /\ dir' = [dir EXCEPT ![DayOf[i]] = @ \cup {i}]
    /\ copied' = copied \cup {i}
    /\ host' = [host EXCEPT ![i] = "copied"]
    /\ Disturb
    /\ UNCHANGED <<today, log, sealedLog, manifest, db, place, row, errs, sealer,
                   written, stored, deleted, resealed, torn, lossy, stale, faults>>

(* ... the event row is sent after it if it names the Downloads folder ... *)
HostUpdates(i) ==
    /\ host[i] = "copied"
    /\ place' = [place EXCEPT ![i] = IF @ = "downloads" THEN "archive" ELSE @]
    /\ copied' = copied \ {i}
    /\ host' = [host EXCEPT ![i] = "placed"]
    /\ Disturb
    /\ UNCHANGED <<today, log, sealedLog, dir, manifest, db, row, errs, sealer,
                   written, stored, deleted, resealed, torn, lossy, stale, faults>>

(* ... the day is looked up ...                                            *)
HostLooks(i) ==
    /\ host[i] = "placed"
    /\ host' = [host EXCEPT ![i] = IF row[DayOf[i]] = "sealed" THEN "late" ELSE "open"]
    /\ Disturb
    /\ UNCHANGED <<today, archiveVars, sealer, historyVars, faults>>

(* ... and its row inserted, and the source removed.                       *)
HostInserts(i) ==
    /\ host[i] \in {"open", "late"}
    /\ row' = WithRow(DayOf[i])
    /\ host' = [host EXCEPT ![i] = IF @ = "late" THEN "straggler" ELSE "moved"]
    /\ Disturb
    /\ UNCHANGED <<today, log, sealedLog, dir, manifest, db, place, errs, sealer,
                   historyVars, faults>>

(* A late snapshot: the manifest of its day is removed and written again.  *)
(* Foundation's atomic write leaves no half of a manifest.                 *)
HostRemovesManifest(i) ==
    LET d == DayOf[i] IN
    /\ host[i] = "straggler"
    /\ manifest' = [manifest EXCEPT ![d] = NoManifest]
    /\ deleted' = deleted \cup {d}
    /\ host' = [host EXCEPT ![i] = "rewriting"]
    /\ Disturb
    /\ UNCHANGED <<today, log, sealedLog, dir, db, place, row, errs, sealer,
                   written, stored, resealed, copied, torn, lossy, stale, faults>>

HostWritesManifest(i) ==
    LET d == DayOf[i] IN
    /\ host[i] = "rewriting"
    /\ manifest' = [manifest EXCEPT ![d] =
                       [mode  |-> "full",
                        lists |-> {j \in dir[d] \cap Invs : place[j] = "archive"}]]
    /\ deleted' = deleted \ {d}
    /\ host' = [host EXCEPT ![i] = "moved"]
    /\ Disturb
    /\ UNCHANGED <<today, log, sealedLog, dir, db, place, row, errs, sealer,
                   written, stored, resealed, copied, torn, lossy, stale, faults>>

HostArchives(i) ==
    \/ HostCopies(i) \/ HostUpdates(i) \/ HostLooks(i) \/ HostInserts(i)
    \/ HostRemovesManifest(i) \/ HostWritesManifest(i)

(* The result is an error if the database write or the first line failed.  *)
HostResult(i) ==
    LET failed == host[i] = "failed" \/ [id |-> i, half |-> "action"] \notin written IN
    /\ host[i] \in {"failed", "moved"} \/ (host[i] = "stored" /\ Msg[i].kind \notin Tags)
    /\ AppendLine(i, IF failed THEN "error" ELSE "success")
    /\ host' = [host EXCEPT ![i] = "over"]
    /\ UNCHANGED <<today, sealedLog, dir, manifest, db, place, row, errs, sealer,
                   stored, deleted, resealed, copied, torn, lossy, stale, faults>>

HostSteps(i) == HostLogs(i) \/ HostStores(i) \/ HostArchives(i) \/ HostResult(i)

Midnight ==
    /\ today < LastDate
    /\ today' = today + 1
    /\ UNCHANGED <<archiveVars, sealer, host, historyVars, reb, faults>>

(***************************************************************************)
(* The user, who may have the sealer run again on a day.                   *)
(***************************************************************************)
(* What snapshot_sealer tells its user to do before sealing a day again.   *)
DeleteManifest(d) ==
    /\ UserDeletes
    /\ manifest[d].mode # "absent"
    /\ sealer.pc = "idle"
    /\ manifest' = [manifest EXCEPT ![d] = NoManifest]
    /\ deleted' = deleted \cup {d}
    /\ UNCHANGED <<today, log, sealedLog, dir, db, place, row, errs, sealer, host,
                   written, stored, resealed, copied, torn, lossy, stale, reb, faults>>

(***************************************************************************)
(* The rebuilder: the tables are dropped, the logs replayed and the        *)
(* archive walked, as the options ask.                                     *)
(***************************************************************************)
EnterLogPhase(r) ==
    [r EXCEPT !.pc = IF r.log THEN "collect" ELSE "rehydrate"]
EnterRehydrate(r) ==
    [r EXCEPT !.pc = IF r.rehydrate THEN "rehydrate" ELSE "done"]

RebuildBegins(o) ==
    LET r == [IdleReb EXCEPT !.log = o.log, !.rehydrate = o.rehydrate,
                             !.quiet = o.truncate]
    IN  /\ reb.pc = "idle"
        /\ o.log \/ o.rehydrate
        /\ reb' = IF o.truncate THEN [r EXCEPT !.pc = "drop"] ELSE EnterLogPhase(r)
        /\ UNCHANGED <<today, archiveVars, sealer, host, historyVars, faults>>

(* Four statements, each committed at once.                                *)
DropVisits ==
    /\ reb.pc = "drop"
    /\ db' = [EmptyDb EXCEPT !.events = db.events]
    /\ torn' = (db' # EmptyDb)
    /\ lossy' = TRUE
    /\ stale' = TRUE
    /\ reb' = [reb EXCEPT !.pc = "drop_read"]
    /\ UNCHANGED <<today, log, sealedLog, dir, manifest, place, row, errs, sealer, host,
                   written, stored, deleted, resealed, copied, faults>>

DropEvents(t) ==
    /\ reb.pc = IF t = "read" THEN "drop_read" ELSE "drop_skimmed"
    /\ db' = [db EXCEPT !.events = {e \in @ : e.tag # t}]
    /\ place' = [i \in Invs |-> IF Msg[i].kind = t THEN "none" ELSE place[i]]
    /\ torn' = (db' # EmptyDb)
    /\ reb' = [reb EXCEPT !.pc = IF t = "read" THEN "drop_skimmed" ELSE "drop_rows"]
    /\ UNCHANGED <<today, log, sealedLog, dir, manifest, row, errs, sealer, host,
                   written, stored, deleted, resealed, copied, lossy, stale, faults>>

DropSnapshots ==
    /\ reb.pc = "drop_rows"
    /\ row' = [d \in Dates |-> "none"]
    /\ reb' = EnterLogPhase(reb)
    /\ UNCHANGED <<today, log, sealedLog, dir, manifest, db, place, errs, sealer, host,
                   historyVars, faults>>

TruncateRebuildableTables ==
    DropVisits \/ (\E t \in Tags : DropEvents(t)) \/ DropSnapshots

(* _collect_log_paths lists the archive first and LOG_DIR after it.        *)
ListArchive ==
    /\ reb.pc = "collect"
    /\ reb' = [reb EXCEPT !.pc = "collect_log",
                          !.files = {d \in Dates : sealedLog[d] # <<>>} \X {"icloud"}]
    /\ UNCHANGED <<today, archiveVars, sealer, host, historyVars, faults>>

ListLogDir ==
    /\ reb.pc = "collect_log"
    /\ reb' = [reb EXCEPT !.pc = "replay",
                          !.files = @ \cup ({d \in Dates : log[d] # <<>>} \X {"log_dir"})]
    /\ UNCHANGED <<today, archiveVars, sealer, host, historyVars, faults>>

(* Mutants of Before: no date in the key; the other copy of a day first.   *)
BeforeUndated(f, g) ==
    \/ f[2] = "icloud" /\ g[2] = "log_dir"
    \/ f[2] = g[2] /\ f[1] > g[1]
BeforeSwapped(f, g) ==
    f[1] < g[1] \/ (f[1] = g[1] /\ f[2] = "log_dir" /\ g[2] = "icloud")

(* The key that the log files are sorted by.                               *)
Before(f, g) ==
    f[1] < g[1] \/ (f[1] = g[1] /\ f[2] = "icloud" /\ g[2] = "log_dir")

Content(f) == IF f[2] = "icloud" THEN sealedLog[f[1]] ELSE log[f[1]]

(* A file that is gone ends the program with exit code 2.                  *)
OpenFile(f) ==
    /\ reb.pc = "replay" /\ reb.lines = <<>>
    /\ f \in reb.files
    /\ \A g \in reb.files \ {f} : Before(f, g)
    /\ IF Content(f) = <<>> THEN reb' = IdleReb /\ UNCHANGED <<row, stale>>
       ELSE /\ row' = WithRow(f[1])
            /\ stale' = TRUE
            /\ reb' = [reb EXCEPT !.files = @ \ {f}, !.lines = Content(f)]
    /\ UNCHANGED <<today, log, sealedLog, dir, manifest, db, place, errs, sealer, host,
                   written, stored, deleted, resealed, copied, torn, lossy, faults>>

(* Mutant of ApplyAction: an unconditional counter.                        *)
ApplyUngated(d, i) ==
    LET b == InsertVisit(d, Msg[i].url, Msg[i].ts) IN
    IF Msg[i].kind \in Tags THEN TagUngated(b, Msg[i].url, Msg[i].ts, Msg[i].kind)
    ELSE HostTag(b, Msg[i].url, Msg[i].ts, Msg[i].kind)

(* The log does not hold alsoOfInterest.                                   *)
ApplyAction(d, i) ==
    HostTag(InsertVisit(d, Msg[i].url, Msg[i].ts), Msg[i].url, Msg[i].ts, Msg[i].kind)

(* Mutant of Applies: what a failed result line names is applied too.      *)
AppliesAny(l) == l.half # "action" /\ l.id \in reb.pending

Applies(l) == l.half = "success" /\ l.id \in reb.pending

Skips(l) == (l.half = "action") <=> (l.id \in reb.pending)

ReplayOneLine ==
    LET l == Head(reb.lines) IN
    /\ reb.pc = "replay" /\ reb.lines # <<>>
    /\ db' = IF Applies(l) THEN ApplyAction(db, l.id) ELSE db
    /\ place' = IF Applies(l) /\ Msg[l.id].kind \in Tags /\ Ev(l.id) \notin db.events
                THEN [place EXCEPT ![l.id] = "downloads"] ELSE place
    /\ reb' = [reb EXCEPT !.lines = Tail(@),
                          !.pending = IF l.half = "action" THEN @ \cup {l.id} ELSE @ \ {l.id},
                          !.skipped = @ \/ Skips(l)]
    /\ UNCHANGED <<today, log, sealedLog, dir, manifest, row, errs, sealer, host,
                   historyVars, faults>>

(* Mutant of EndReplay: nobody looks at what is still pending.             *)
EndReplayUnpaired ==
    /\ reb.pc = "replay" /\ reb.lines = <<>> /\ reb.files = {}
    /\ reb' = EnterRehydrate([reb EXCEPT !.pending = {}])
    /\ UNCHANGED <<today, archiveVars, sealer, host, historyVars, faults>>

(* An action that is still without a result is skipped as well.            *)
EndReplay ==
    /\ reb.pc = "replay" /\ reb.lines = <<>> /\ reb.files = {}
    /\ reb' = EnterRehydrate([reb EXCEPT !.skipped = @ \/ reb.pending # {},
                                         !.pending = {}])
    /\ UNCHANGED <<today, archiveVars, sealer, host, historyVars, faults>>

(* Mutant of RehydrateFilesystem: the event rows are left in Downloads.    *)
RehydrateRowsOnly ==
    /\ reb.pc = "rehydrate"
    /\ row' = [d \in Dates |->
                 IF ~DirExists(d) THEN row[d]
                 ELSE IF manifest[d].mode # "absent" THEN "sealed" ELSE "open"]
    /\ stale' = FALSE
    /\ copied' = {}
    /\ reb' = [reb EXCEPT !.pc = "done"]
    /\ UNCHANGED <<today, log, sealedLog, dir, manifest, db, place, errs, sealer, host,
                   written, stored, deleted, resealed, torn, lossy, faults>>

(* Phase 2, one transaction.                                               *)
RehydrateFilesystem ==
    /\ reb.pc = "rehydrate"
    /\ row' = [d \in Dates |->
                 IF ~DirExists(d) THEN row[d]
                 ELSE IF manifest[d].mode # "absent" THEN "sealed" ELSE "open"]
    /\ place' = [i \in Invs |-> IF place[i] = "downloads" /\ i \in dir[DayOf[i]]
                                THEN "archive" ELSE place[i]]
    /\ stale' = FALSE
    /\ copied' = {}
    /\ reb' = [reb EXCEPT !.pc = "done"]
    /\ UNCHANGED <<today, log, sealedLog, dir, manifest, db, errs, sealer, host, written,
                   stored, deleted, resealed, torn, lossy, faults>>

(* Exit code 0 says that no line was skipped.  The replay is complete then *)
(* unless a log went to the archive when the archive had been listed and   *)
(* that log had not been read: nothing tells the rebuilder.                *)
RebuildEnds ==
    /\ reb.pc = "done"
    /\ lossy' = (lossy /\ ~(reb.log /\ ~reb.skipped /\ ~reb.moved))
    /\ reb' = IdleReb
    /\ UNCHANGED <<today, archiveVars, sealer, host, written, stored, deleted, resealed,
                   copied, torn, stale, faults>>

RebuildSteps ==
    \/ \E o \in Options : RebuildBegins(o)
    \/ TruncateRebuildableTables \/ ListArchive \/ ListLogDir
    \/ \E f \in Dates \X Sources : OpenFile(f)
    \/ ReplayOneLine \/ EndReplay
    \/ RehydrateFilesystem \/ RebuildEnds

(***************************************************************************)
(* The sealing programs next to a rebuild, and failures.                   *)
(***************************************************************************)
ManifestGone ==
    deleted' = {d \in Dates : /\ manifest'[d].mode = "absent"
                              /\ d \in deleted \/ manifest[d].mode # "absent"}

(* A line of day d is in LOG_DIR, or may still come.                       *)
Unsettled(d) ==
    \/ log[d] # <<>> \/ d >= today
    \/ \E i \in Invs : DayOf[i] = d /\ host[i] \notin {"new", "over"}

SealerStarts ==
    /\ SealCompletedDays \/ (\E d \in Dates : SnapshotSealer(d))
    /\ resealed' = resealed \cup {d \in sealer'.dates : sealedLog[d] # <<>> /\ Unsettled(d)}
    /\ UNCHANGED <<host, written, stored, deleted, copied, torn, lossy, stale, reb, faults>>

SealerWorks ==
    /\ SealerSteps
    /\ ManifestGone
    /\ UNCHANGED <<host, written, stored, resealed, copied, torn, lossy, stale, reb, faults>>

(* The rebuilder expects the log of day d where this step takes it away.   *)
Outruns(d) ==
    /\ log[d] # <<>> /\ log'[d] = <<>>
    /\ reb.pc = "collect_log" \/ (reb.pc = "replay" /\ <<d, "log_dir">> \in reb.files)

SealerMovesLog(d) ==
    /\ MovesLog(d)
    /\ reb' = IF reb.pc = "idle" THEN reb
              ELSE [reb EXCEPT !.moved = @ \/ Outruns(d), !.quiet = FALSE]
    /\ UNCHANGED <<host, written, stored, deleted, resealed, copied, torn, lossy, stale, faults>>

SealersRun ==
    SealerStarts \/ SealerWorks \/ \E d \in Dates : SealerMovesLog(d)

(* The first line, or the transaction, of an invocation fails.             *)
HostLineFails(i) ==
    /\ host[i] = "new" /\ today = DayOf[i]
    /\ host' = [host EXCEPT ![i] = "logged"]
    /\ UNCHANGED <<today, archiveVars, sealer, historyVars, reb>>

HostStoreFails(i) ==
    /\ host[i] = "logged"
    /\ host' = [host EXCEPT ![i] = "failed"]
    /\ UNCHANGED <<today, archiveVars, sealer, historyVars, reb>>

(* The copy, the UPDATE or a later step of moveOne throws: an error row,   *)
(* and the invocation goes on.                                             *)
HostArchiveFails(i) ==
    /\ host[i] \in Archiving \/ (host[i] = "stored" /\ Msg[i].kind \in Tags)
    /\ host' = [host EXCEPT ![i] = "moved"]
    /\ UNCHANGED <<today, archiveVars, sealer, historyVars, reb>>

HostKilled(i) ==
    /\ host[i] \notin {"new", "over"}
    /\ host' = [host EXCEPT ![i] = "over"]
    /\ UNCHANGED <<today, archiveVars, sealer, historyVars, reb>>

HostMishap(i) ==
    \/ HostLineFails(i) \/ HostStoreFails(i)
    \/ HostArchiveFails(i) \/ HostKilled(i)

RebuildKilled ==
    /\ reb.pc # "idle"
    /\ reb' = IdleReb
    /\ UNCHANGED <<today, archiveVars, sealer, host, historyVars>>

SealersFail ==
    /\ SealerFault
    /\ ManifestGone
    /\ UNCHANGED <<host, written, stored, resealed, copied, torn, lossy, stale, reb>>

Fault ==
    /\ faults < MaxFaults
    /\ faults' = faults + 1
    /\ \/ \E i \in Invs : HostMishap(i)
       \/ RebuildKilled
       \/ SealersFail

Next ==
    \/ \E i \in Invs : HostSteps(i)
    \/ \E d \in Dates : DeleteManifest(d)
    \/ Midnight \/ RebuildSteps \/ SealersRun \/ Fault

Spec == Init /\ [][Next]_vars
=============================================================================
