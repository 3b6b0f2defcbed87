------------------------------- MODULE PySeal -------------------------------
(***************************************************************************)
(* The day directories of a laptop's archive and the two programs of the   *)
(* Python snapshot library that seal them: snapshot_sealer.py, run by hand *)
(* on one day, and seal_completed_days.py, which seals every past day that *)
(* has no manifest.  Both work through snapshot_mover._seal_directory, one *)
(* action here per statement that another process, an exception or a kill  *)
(* can come between.                                                       *)
(*                                                                         *)
(* A record id names its invocation of the native host and the snapshot    *)
(* that the invocation's message may carry.  Abstracted: file modes, and   *)
(* the columns of a manifest other than the file name.                     *)
(***************************************************************************)
EXTENDS VisitDb, ErrorRows, Sequences

CONSTANTS
    LastDate,   \* days 1..LastDate (bound)
    Invs,       \* record ids
    Strays,     \* files of the user in the directories, not named like
                \* a snapshot
    Msg,        \* Msg[i]: the message of invocation i
    DayOf       \* DayOf[f]: the day of an invocation or of a file

Dates == 1..LastDate
Files == Invs \cup Strays

ASSUME LastDateAssumption == LastDate \in Nat \ {0}
ASSUME DisjointAssumption == Invs \cap Strays = {}
ASSUME MsgAssumption == Msg \in [Invs -> Message]
ASSUME DayOfAssumption == DayOf \in [Files -> Dates]

VARIABLES
    today,      \* the current UTC day
    log,        \* log[d]: browser-visits-<d>.log in LOG_DIR, <<>> if absent
    sealedLog,  \* sealedLog[d]: the log in the directory of day d
    dir,        \* dir[d]: the other files in the directory of day d
    manifest,   \* manifest[d]: its MANIFEST.tsv
    db,         \* visits and the event tables
    place,      \* place[i]: the directory column of i's event row
    row,        \* row[d]: the row of day d in the snapshots table
    errs,       \* mover_errors
    sealer      \* the sealing program

archiveVars == <<log, sealedLog, dir, manifest, db, place, row, errs>>

Lines == [id : Invs, half : {"action", "success", "error"}]

Ev(i) == [tag |-> Msg[i].kind, url |-> Msg[i].url, ts |-> Msg[i].ts]

ErrorKeys == {<<"seal", d>> : d \in Dates}
                \cup {<<"invalid_filename", s>> : s \in Strays}
                \cup {<<"orphan_file", i>> : i \in Invs}

NoManifest == [mode |-> "absent", lists |-> {}]
Manifest == [mode : {"absent", "partial", "full"}, lists : SUBSET Invs]

IdleSealer == [pc |-> "idle", dates |-> {}, lists |-> {}, merges |-> FALSE,
               byName |-> FALSE]
Sealer == [pc     : {"idle", "list", "write", "movelog", "flip", "clear", "merge", "unlink"},
           dates  : SUBSET Dates,
           lists  : SUBSET Invs,
           merges : BOOLEAN,
           byName : BOOLEAN]

SealTypeOK ==
    /\ today \in Dates
    /\ log \in [Dates -> Seq(Lines)] /\ sealedLog \in [Dates -> Seq(Lines)]
    /\ dir \in [Dates -> SUBSET Files]
    /\ manifest \in [Dates -> Manifest]
    /\ db \in Db
    /\ place \in [Invs -> {"none", "downloads", "archive"}]
    /\ row \in [Dates -> {"none", "open", "sealed"}]
    /\ errs \in [ErrorKeys -> ErrorRow]
    /\ sealer \in Sealer

SealInit ==
    /\ today = 1
    /\ log = [d \in Dates |-> <<>>] /\ sealedLog = [d \in Dates |-> <<>>]
    /\ dir = [d \in Dates |-> {s \in Strays : DayOf[s] = d}]
    /\ manifest = [d \in Dates |-> NoManifest]
    /\ db = EmptyDb
    /\ place = [i \in Invs |-> "none"]
    /\ row = [d \in Dates |-> "none"]
    /\ errs = [k \in ErrorKeys |-> NoRow]
    /\ sealer = IdleSealer

IsFirst(d, S) == d \in S /\ \A e \in S : d <= e

DirExists(d) == dir[d] # {} \/ sealedLog[d] # <<>> \/ manifest[d].mode # "absent"
Unmanifested(d) == DirExists(d) /\ manifest[d].mode = "absent"

(* INSERT OR IGNORE INTO snapshots (date, sealed) VALUES (d, 0).           *)
WithRow(d) == [row EXCEPT ![d] = IF @ = "none" THEN "open" ELSE @]

(***************************************************************************)
(* The two programs.  The day of a run by hand need not be over.           *)
(***************************************************************************)
SnapshotSealer(d) ==
    /\ sealer.pc = "idle"
    /\ Unmanifested(d)
    /\ sealer' = [IdleSealer EXCEPT !.pc = "list", !.dates = {d}, !.merges = TRUE]
    /\ UNCHANGED <<today, archiveVars>>

SealCompletedDays ==
    LET candidates == {d \in Dates : d < today /\ Unmanifested(d)} IN
    /\ sealer.pc = "idle"
    /\ candidates # {}
    /\ sealer' = [IdleSealer EXCEPT !.pc = "list", !.dates = candidates, !.byName = TRUE]
    /\ UNCHANGED <<today, archiveVars>>

(* The next day, or the merge of orphan logs after the only one.           *)
AfterDay(d) ==
    LET rest == sealer.dates \ {d} IN
    IF rest # {} THEN [sealer EXCEPT !.pc = "list", !.dates = rest, !.lists = {}]
    ELSE IF sealer.merges
    THEN [IdleSealer EXCEPT !.pc = "merge",
                            !.dates = {e \in Dates : e < today /\ log[e] # <<>>}]
    ELSE IdleSealer

(***************************************************************************)
(* _seal_directory                                                         *)
(***************************************************************************)
At(pc, d) == sealer.pc = pc /\ IsFirst(d, sealer.dates)
Goto(pc) == sealer' = [sealer EXCEPT !.pc = pc]

LookupEvent(i) == Ev(i) \in db.events /\ (sealer.byName \/ place[i] = "archive")

RecordStrays(e, op, strays) ==
    [k \in DOMAIN e |-> IF k[1] = op /\ k[2] \in strays
                        THEN RecordError(e, k, IsImmediate(op, FALSE))[k] ELSE e[k]]

(* Files that the manifest leaves out get an error row; the rows of files  *)
(* that are no longer stray go.                                            *)
BuildManifestRows(d) ==
    LET here    == {f \in Files : DayOf[f] = d}
        invalid == dir[d] \cap Strays
        listed  == {i \in dir[d] \cap Invs : LookupEvent(i)}
        orphan  == (dir[d] \cap Invs) \ listed
    IN  /\ At("list", d)
        /\ manifest' = [manifest EXCEPT ![d] = NoManifest]
        /\ errs' = ReconcileDirScoped(
                       ReconcileDirScoped(
                           RecordStrays(RecordStrays(errs, "invalid_filename", invalid),
                                        "orphan_file", orphan),
                           "invalid_filename", here, invalid),
                       "orphan_file", here, orphan)
        /\ sealer' = [sealer EXCEPT !.pc = "write", !.lists = listed]
        /\ UNCHANGED <<today, log, sealedLog, dir, db, place, row>>

(* Mutant of WriteManifest: the manifest is built but not written.         *)
WriteNothing(d) ==
    /\ At("write", d)
    /\ Goto("movelog")
    /\ UNCHANGED <<today, archiveVars>>

WriteManifest(d) ==
    /\ At("write", d)
    /\ manifest' = [manifest EXCEPT ![d] = [mode |-> "full", lists |-> sealer.lists]]
    /\ Goto("movelog")
    /\ UNCHANGED <<today, log, sealedLog, dir, db, place, row, errs>>

(* shutil.move replaces a log that is already in the directory.            *)
MoveLogIntoSealedDir(d) ==
    /\ At("movelog", d)
    /\ IF log[d] = <<>> THEN UNCHANGED <<log, sealedLog>>
       ELSE /\ sealedLog' = [sealedLog EXCEPT ![d] = log[d]]
            /\ log' = [log EXCEPT ![d] = <<>>]
    /\ Goto("flip")
    /\ UNCHANGED <<today, dir, manifest, db, place, row, errs>>

FlipSealed(d) ==
    /\ At("flip", d)
    /\ row' = [row EXCEPT ![d] = "sealed"]
    /\ Goto("clear")
    /\ UNCHANGED <<today, log, sealedLog, dir, manifest, db, place, errs>>

ClearSealError(d) ==
    /\ At("clear", d)
    /\ errs' = ClearError(errs, <<"seal", d>>)
    /\ sealer' = AfterDay(d)
    /\ UNCHANGED <<today, log, sealedLog, dir, manifest, db, place, row>>

(***************************************************************************)
(* _orphan_log_merge_pass                                                  *)
(***************************************************************************)
AfterMerge(d) ==
    IF sealer.dates = {d} THEN IdleSealer
    ELSE [sealer EXCEPT !.pc = "merge", !.dates = @ \ {d}]

(* Mutant of MergeOrphanLog: the sealed log is opened with 'w'.            *)
MergeReplacing(d) ==
    /\ At("merge", d)
    /\ IF sealedLog[d] # <<>>
       THEN /\ sealedLog' = [sealedLog EXCEPT ![d] = log[d]]
            /\ Goto("unlink")
            /\ row' = row
       ELSE /\ row' = WithRow(d)
            /\ sealer' = AfterMerge(d)
            /\ UNCHANGED sealedLog
    /\ UNCHANGED <<today, log, dir, manifest, db, place, errs>>

MergeOrphanLog(d) ==
    /\ At("merge", d)
    /\ IF sealedLog[d] # <<>>
       THEN /\ sealedLog' = [sealedLog EXCEPT ![d] = @ \o log[d]]
            /\ Goto("unlink")
            /\ row' = row
       ELSE /\ row' = WithRow(d)
            /\ sealer' = AfterMerge(d)
            /\ UNCHANGED sealedLog
    /\ UNCHANGED <<today, log, dir, manifest, db, place, errs>>

UnlinkOrphanLog(d) ==
    /\ At("unlink", d)
    /\ log' = [log EXCEPT ![d] = <<>>]
    /\ errs' = ClearError(errs, <<"seal", d>>)
    /\ sealer' = AfterMerge(d)
    /\ UNCHANGED <<today, sealedLog, dir, manifest, db, place, row>>

NothingToMerge ==
    /\ sealer.pc = "merge"
    /\ sealer.dates = {}
    /\ sealer' = IdleSealer
    /\ UNCHANGED <<today, archiveVars>>

(* The steps that move log lines from one file to another.                 *)
MovesLog(d) == MoveLogIntoSealedDir(d) \/ MergeOrphanLog(d) \/ UnlinkOrphanLog(d)

SealerSteps ==
    \/ NothingToMerge
    \/ \E d \in Dates :
          \/ BuildManifestRows(d) \/ WriteManifest(d)
          \/ FlipSealed(d) \/ ClearSealError(d)

(***************************************************************************)
(* Failures.  An exception in a day's seal is recorded, and the program    *)
(* goes on; a full disk or a kill during the write leaves half a manifest. *)
(***************************************************************************)
HalfWritten(d) ==
    manifest' \in {manifest} \cup
        (IF sealer.pc = "write"
         THEN {[manifest EXCEPT ![d] = [mode |-> "partial", lists |-> {}]]} ELSE {})

SealThrows(d) ==
    /\ \E pc \in {"list", "write", "movelog", "flip"} : At(pc, d)
    /\ HalfWritten(d)
    /\ \E broken \in BOOLEAN :
          errs' = RecordError(errs, <<"seal", d>>, IsImmediate("seal", broken))
    /\ sealer' = AfterDay(d)
    /\ UNCHANGED <<today, log, sealedLog, dir, db, place, row>>

MergeThrows(d) ==
    /\ (At("merge", d) /\ sealedLog[d] # <<>>) \/ At("unlink", d)
    /\ \E broken \in BOOLEAN :
          errs' = RecordError(errs, <<"seal", d>>, IsImmediate("seal", broken))
    /\ sealer' = AfterMerge(d)
    /\ UNCHANGED <<today, log, sealedLog, dir, manifest, db, place, row>>

SealerKilled ==
    /\ sealer.pc # "idle"
    /\ IF sealer.pc = "write"
       THEN \E d \in Dates : IsFirst(d, sealer.dates) /\ HalfWritten(d)
       ELSE manifest' = manifest
    /\ sealer' = IdleSealer
    /\ UNCHANGED <<today, log, sealedLog, dir, db, place, row, errs>>

SealerFault ==
    \/ SealerKilled
    \/ \E d \in Dates : SealThrows(d) \/ MergeThrows(d)
=============================================================================
