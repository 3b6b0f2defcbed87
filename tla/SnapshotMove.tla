---------------------------- MODULE SnapshotMove ----------------------------
(***************************************************************************)
(* Moving a snapshot from the Downloads folder into its day's directory of *)
(* the archive, and writing the manifest of such a directory: the code     *)
(* that the native host and the housekeeping agent share (Archive.moveOne, *)
(* Seal.writeManifestFile).  Both processes run it step by step, on the    *)
(* same files and the same database, with nothing to exclude one another.  *)
(*                                                                         *)
(* A snapshot's name determines its day and has at most one event row, so  *)
(* the archive is a function of the snapshot, and a manifest is the set of *)
(* snapshots it lists (tag, time, url and title come from that one row).   *)
(*                                                                         *)
(* Abstracted: modification times and the mode of the copies; names that   *)
(* do not have the snapshot format; an archive root that cannot be         *)
(* resolved (nothing is moved then); the rows that record a failed step,   *)
(* except those of Verify.                                                 *)
(***************************************************************************)
EXTENDS Naturals, FiniteSets

CONSTANTS
    Files,      \* snapshots
    LastDate,   \* days of a behaviour are 1..LastDate (bound)
    DayOf,      \* the day in a snapshot's name
    Hosts,      \* invocations of BVLHost alive at once (bound)
    Agent,      \* the housekeeping process, BVLVerifier
    NoFile      \* nothing being moved

Dates == 1..LastDate
Workers == Hosts \cup {Agent}

ASSUME LastDateAssumption == LastDate \in Nat \ {0}
ASSUME DayOfAssumption == DayOf \in [Files -> Dates]
ASSUME NamesAssumption == Agent \notin Hosts /\ NoFile \notin Files

VARIABLES
    downloads,  \* the files in ~/Downloads/browser-visit-snapshots
    archive,    \* archive[f]: the copy of f in its day's directory
    place,      \* place[f]: the directory column of f's event row
    row,        \* row[d]: the snapshots table
    manifest,   \* manifest[d]: MANIFEST.tsv in the directory of day d
    work        \* work[p]: how far process p is in moving or listing

moveVars == <<downloads, archive, place, row, manifest, work>>

NoManifest == [mode |-> "absent", lists |-> {}]

(* names: files listed and not looked up yet; rows: manifest rows so far.  *)
Worker == [pc    : {"idle", "remove", "copy", "protect", "update", "check",
                    "insert", "unlink", "drop", "list", "lookup", "lock"},
           file  : Files \cup {NoFile},
           day   : Dates,
           late  : BOOLEAN,
           ok    : BOOLEAN,
           names : SUBSET Files,
           rows  : SUBSET Files]

IdleWorker == [pc |-> "idle", file |-> NoFile, day |-> 1, late |-> FALSE,
               ok |-> TRUE, names |-> {}, rows |-> {}]

MoveTypeOK ==
    /\ downloads \in SUBSET Files
    /\ archive \in [Files -> {"absent", "partial", "whole"}]
    /\ place \in [Files -> {"none", "downloads", "archive"}]
    /\ row \in [Dates -> {"none", "open", "sealed"}]
    /\ manifest \in [Dates -> [mode  : {"absent", "writable", "readonly"},
                               lists : SUBSET Files]]
    /\ work \in [Workers -> Worker]

MoveInit ==
    /\ downloads = {}
    /\ archive = [f \in Files |-> "absent"]
    /\ place = [f \in Files |-> "none"]
    /\ row = [d \in Dates |-> "none"]
    /\ manifest = [d \in Dates |-> NoManifest]
    /\ work = [p \in Workers |-> IdleWorker]

(* INSERT OR IGNORE INTO snapshots (date, sealed) VALUES (d, 0)            *)
InsertRow(d) ==
    row' = IF row[d] = "none" THEN [row EXCEPT ![d] = "open"] ELSE row

Goto(p, pc) == work' = [work EXCEPT ![p].pc = pc]
Stop(p, ok) == work' = [work EXCEPT ![p] = [IdleWorker EXCEPT !.ok = ok]]

StartMove(p, f) ==
    work' = [work EXCEPT ![p] = [IdleWorker EXCEPT !.pc = "remove", !.file = f,
                                                   !.day = DayOf[f]]]

StartManifest(p, d) ==
    work' = [work EXCEPT ![p] = [IdleWorker EXCEPT !.pc = "drop", !.day = d]]

(***************************************************************************)
(* moveOne.  Looking for an old copy and removing it is one step.          *)
(***************************************************************************)
RemoveOld(p) ==
    /\ work[p].pc = "remove"
    /\ archive' = [archive EXCEPT ![work[p].file] = "absent"]
    /\ Goto(p, "copy")
    /\ UNCHANGED <<downloads, place, row, manifest>>

(* copyItem throws if the source is gone, or if there is a copy already.   *)
Copy(p) ==
    LET f == work[p].file IN
    /\ work[p].pc = "copy"
    /\ IF f \in downloads /\ archive[f] = "absent"
       THEN archive' = [archive EXCEPT ![f] = "whole"] /\ Goto(p, "protect")
       ELSE archive' = archive /\ Stop(p, FALSE)
    /\ UNCHANGED <<downloads, place, row, manifest>>

(* setAttributes throws if another process has removed the copy.           *)
Protect(p) ==
    /\ work[p].pc = "protect"
    /\ IF archive[work[p].file] = "absent" THEN Stop(p, FALSE) ELSE Goto(p, "update")
    /\ UNCHANGED <<downloads, archive, place, row, manifest>>

(* Mutant of UpdateDirectory: the WHERE clause matches no row.             *)
UpdateNothing(p) ==
    /\ work[p].pc = "update"
    /\ Goto(p, "check")
    /\ UNCHANGED <<downloads, archive, place, row, manifest>>

UpdateDirectory(p) ==
    LET f == work[p].file IN
    /\ work[p].pc = "update"
    /\ place' = IF place[f] = "downloads"
                THEN [place EXCEPT ![f] = "archive"] ELSE place
    /\ Goto(p, "check")
    /\ UNCHANGED <<downloads, archive, row, manifest>>

(* A straggler: its day is sealed already.                                 *)
CheckSealed(p) ==
    /\ work[p].pc = "check"
    /\ work' = [work EXCEPT ![p].late = row[work[p].day] = "sealed",
                            ![p].pc = "insert"]
    /\ UNCHANGED <<downloads, archive, place, row, manifest>>

InsertSnapshotRow(p) ==
    /\ work[p].pc = "insert"
    /\ InsertRow(work[p].day)
    /\ Goto(p, "unlink")
    /\ UNCHANGED <<downloads, archive, place, manifest>>

RemoveSource(p) ==
    LET f == work[p].file IN
    /\ work[p].pc = "unlink"
    /\ downloads' = downloads \ {f}
    /\ IF f \in downloads /\ work[p].late
       THEN StartManifest(p, work[p].day)
       ELSE Stop(p, f \in downloads)
    /\ UNCHANGED <<archive, place, row, manifest>>

(***************************************************************************)
(* writeManifestFile.  A day's directory holds the snapshots that have a   *)
(* copy there, whole or not; those without an event row that names the     *)
(* directory are left out.  The file is written atomically.                *)
(***************************************************************************)
OfDay(d) == {f \in Files : DayOf[f] = d}
Present(d) == {f \in OfDay(d) : archive[f] # "absent"}
LookupEvent(f) == place[f] = "archive"

DropManifest(p) ==
    /\ work[p].pc = "drop"
    /\ manifest' = [manifest EXCEPT ![work[p].day] = NoManifest]
    /\ Goto(p, "list")
    /\ UNCHANGED <<downloads, archive, place, row>>

ListDirectory(p) ==
    /\ work[p].pc = "list"
    /\ work' = [work EXCEPT ![p].names = Present(work[p].day), ![p].pc = "lookup"]
    /\ UNCHANGED <<downloads, archive, place, row, manifest>>

LookupRow(p) ==
    /\ work[p].pc = "lookup"
    /\ \E f \in work[p].names :
          work' = [work EXCEPT
              ![p].names = @ \ {f},
              ![p].rows = IF LookupEvent(f) THEN @ \cup {f} ELSE @]
    /\ UNCHANGED <<downloads, archive, place, row, manifest>>

WriteManifest(p) ==
    /\ work[p].pc = "lookup"
    /\ work[p].names = {}
    /\ manifest' = [manifest EXCEPT ![work[p].day] =
                      [mode |-> "writable", lists |-> work[p].rows]]
    /\ Goto(p, "lock")
    /\ UNCHANGED <<downloads, archive, place, row>>

(* The manifest may be gone: another process is writing it too.            *)
LockManifest(p) ==
    LET d == work[p].day IN
    /\ work[p].pc = "lock"
    /\ manifest' = [manifest EXCEPT ![d].mode =
                      IF @ = "absent" THEN @ ELSE "readonly"]
    /\ Stop(p, manifest[d].mode # "absent")
    /\ UNCHANGED <<downloads, archive, place, row>>

WorkerRuns(p) ==
    \/ RemoveOld(p) \/ Copy(p) \/ Protect(p) \/ UpdateDirectory(p)
    \/ CheckSealed(p) \/ InsertSnapshotRow(p) \/ RemoveSource(p)
    \/ DropManifest(p) \/ ListDirectory(p) \/ LookupRow(p)
    \/ WriteManifest(p) \/ LockManifest(p)

(* Mutant of CutShort: a copy that throws does not end the move (try? for  *)
(* try).                                                                   *)
CutShortGoesOn(p) ==
    LET f == work[p].file IN
    /\ IF work[p].pc = "copy"
       THEN archive' = [archive EXCEPT ![f] = "partial"] /\ Goto(p, "protect")
       ELSE archive' = archive /\ Stop(p, FALSE)
    /\ UNCHANGED <<downloads, place, row, manifest>>

(***************************************************************************)
(* The step in hand throws (a full disk, a locked database) or, with the   *)
(* process, is cut short; a copy that does not end leaves part of a file.  *)
(***************************************************************************)
CutShort(p) ==
    LET f == work[p].file IN
    /\ \/ archive' = archive
       \/ /\ work[p].pc = "copy"
          /\ f \in downloads
          /\ archive[f] = "absent"
          /\ archive' = [archive EXCEPT ![f] = "partial"]
    /\ Stop(p, FALSE)
    /\ UNCHANGED <<downloads, place, row, manifest>>

WorkerFails(p) == work[p].pc # "idle" /\ CutShort(p)
=============================================================================
