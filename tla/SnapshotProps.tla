--------------------------- MODULE SnapshotProps ----------------------------
(***************************************************************************)
(* What the snapshot archive promises, as properties of Snapshots.         *)
(***************************************************************************)
EXTENDS Snapshots

(***************************************************************************)
(* A snapshot that the browser has saved is never lost: whatever moveOne   *)
(* is interrupted in, the source is there or the archive has a whole copy. *)
(***************************************************************************)
SnapshotKept == \A f \in saved : f \in downloads \/ archive[f] = "whole"

(***************************************************************************)
(* An event row that names the Downloads folder tells the truth: the       *)
(* directory is updated before the source is removed, and nobody removes   *)
(* the source before the row is there.                                     *)
(***************************************************************************)
DownloadsRowsTrue == \A f \in Files : place[f] = "downloads" => f \in downloads

(***************************************************************************)
(* A line once written to a day's log stays in it or in the sealed copy,   *)
(* through the move of the log, a line that comes late and recreates it,   *)
(* the merge of that orphan and a kill between any two of these steps.     *)
(***************************************************************************)
LinesOf(d) == log[d] \cup sealedLog[d].lines

LinesKept == [][\A d \in Dates : LinesOf(d) \subseteq LinesOf(d)']_vars

(***************************************************************************)
(* Every snapshot ends in the archive, with its event row, if it has one,  *)
(* naming the archive.                                                     *)
(***************************************************************************)
Archived(f) == f \notin downloads /\ archive[f] = "whole" /\ place[f] # "downloads"

AllArchived == \A f \in Files : f \in saved ~> Archived(f)

(***************************************************************************)
(* Every day that is over is sealed, also when a line recreates its log    *)
(* between the move of the log and the flag: then the move cannot be       *)
(* repeated, and the merge has to clear the way.                           *)
(***************************************************************************)
DaysSealed ==
    \A d \in Dates : (d < today /\ row[d] # "none") ~> row[d] = "sealed"

(***************************************************************************)
(* Again and again, the sealed days that are flagged are those whose       *)
(* manifest is not the protected list of the day's snapshots, each with    *)
(* its event row, next to the protected log: no damage stays unnoticed,    *)
(* and no row outlives it.                                                 *)
(***************************************************************************)
Whole(d) == {f \in OfDay(d) : archive[f] = "whole"}

InOrder(d) ==
    /\ manifest[d] = [mode |-> "readonly", lists |-> Whole(d)]
    /\ \A f \in Whole(d) : place[f] = "archive"
    /\ sealedLog[d].mode = "readonly"

VerdictsTrue ==
    []<>(\A d \in Dates : row[d] = "sealed" => (d \in flagged <=> ~InOrder(d)))

(***************************************************************************)
(* The sweep is the retry of a host that found no source: an event row     *)
(* does not name the Downloads folder for ever.                            *)
(***************************************************************************)
RowsCatchUp == \A f \in Files : place[f] = "downloads" ~> place[f] = "archive"

(***************************************************************************)
(* A snapshot that arrives when its day is sealed makes moveOne rewrite    *)
(* the manifest: in the end the manifest of a sealed day lists every       *)
(* snapshot of the day that has an event row.                              *)
(***************************************************************************)
ManifestsCatchUp ==
    \A f \in Files :
        (place[f] = "archive" /\ row[DayOf[f]] = "sealed")
            ~> f \in manifest[DayOf[f]].lists
=============================================================================
