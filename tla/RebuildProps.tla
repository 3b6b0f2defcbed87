---------------------------- MODULE RebuildProps ----------------------------
(***************************************************************************)
(* What the day logs, the archive and the database owe each other while    *)
(* hosts write, sealers seal and the rebuilder rebuilds.                   *)
(***************************************************************************)
EXTENDS Rebuild

LinesOf(s) == {s[k] : k \in 1..Len(s)}
OnDisk == UNION {LinesOf(log[d]) \cup LinesOf(sealedLog[d]) : d \in Dates}

InTheLog(l) == l \in LinesOf(log[DayOf[l.id]]) \cup LinesOf(sealedLog[DayOf[l.id]])

(* Every line that a host appended is still in the log of its day, here or *)
(* in the archive, whatever the sealers and the orphan merge did to the    *)
(* files (snapshot_mover.py, _move_log_into_sealed_dir and                 *)
(* _orphan_log_merge_pass).  Left out are days that a sealer takes up a    *)
(* second time with lines still in LOG_DIR or to come: see EveryLineKept.  *)
LinesKept == \A l \in written : DayOf[l.id] \notin resealed => InTheLog(l)

(* No line is ever lost: the logs are "still durable" when the database is *)
(* not (visits_rebuilder.py, module documentation).                        *)
EveryLineKept == \A l \in written : InTheLog(l)

(* The events that a host has logged and committed.                        *)
Committed == {i \in stored : Msg[i].kind \in Tags /\ [id |-> i, half |-> "action"] \in written}

(* Once a rebuild that replays the logs has ended with exit code 0, every  *)
(* event that a host had logged and committed is in the database again,    *)
(* but for days as in LinesKept and unless a sealer has taken a log away   *)
(* between the listing of the archive and the reading of that log          *)
(* (visits_rebuilder.py, rebuild); see ExitZeroComplete.                   *)
NothingForgotten ==
    ~lossy => \A i \in Committed : DayOf[i] \notin resealed => Ev(i) \in db.events

(* An exit code of 0 means that the logs of LOG_DIR and those of the       *)
(* archive have been replayed (_collect_log_paths; "0 on success").        *)
ExitZeroComplete ==
    /\ reb.pc = "done" /\ reb.log /\ ~reb.skipped
    /\ resealed = {}
    => \A i \in Committed : [id |-> i, half |-> "success"] \in written => Ev(i) \in db.events

(* The database never holds an event that no host committed: not of an     *)
(* invocation whose transaction failed, and not of one cut short           *)
(* (visits_rebuilder.py, _replay_one_file).                                *)
NoPhantoms ==
    db.events \subseteq {Ev(i) : i \in {j \in stored : Msg[j].kind \in Tags}}

(* The counters of visits agree with the event rows, even if a log or a    *)
(* part of it is replayed twice (host.py, _insert_event), from every state *)
(* in which they did.  Only the DROP statements make them disagree: until  *)
(* the last of them, and after it if they were interrupted, or if a host   *)
(* wrote between two of them (_truncate_rebuildable_tables).               *)
CountersTrue == torn \/ CountersExact(db)

(* A rebuild that has replayed all the lines has restored the counters     *)
(* ("Reconstructs"; "rely on idempotency of replay + rehydrate").          *)
RebuiltCountersTrue ==
    reb.pc = "done" /\ reb.log /\ ~reb.skipped /\ ~reb.moved => CountersExact(db)

(* A rebuild from nothing that no other process disturbed gives each url   *)
(* the time of its first logged success: the days count, not the folder a  *)
(* log happens to be in (_collect_log_paths).                              *)
Succeeded == {i \in Invs : \A h \in {"action", "success"} : [id |-> i, half |-> h] \in OnDisk}

FirstDayWins ==
    /\ reb.pc = "done" /\ reb.log /\ reb.quiet /\ ~reb.skipped
    => \A i \in Succeeded : \E j \in Succeeded :
          /\ Msg[j].url = Msg[i].url
          /\ db.visits[Msg[i].url] = Msg[j].ts
          /\ DayOf[j] <= DayOf[i]

(* Exit code 1 only for a reason: if each log line is there once and each  *)
(* invocation has both its lines, an undisturbed rebuild skips nothing,    *)
(* also when a day's lines are in two files (_collect_log_paths,           *)
(* replay_logs).                                                           *)
Paired ==
    \A d \in Dates :
        LET s == sealedLog[d] \o log[d] IN
        /\ \A j, k \in 1..Len(s) : s[j] = s[k] => j = k
        /\ \A l \in LinesOf(s) :
              /\ [id |-> l.id, half |-> "action"] \in LinesOf(s)
              /\ \E r \in LinesOf(s) : r.id = l.id /\ r.half # "action"

ExitTrue ==
    /\ reb.pc = "done" /\ reb.quiet /\ Paired
    => ~reb.skipped

(* A day that the table calls sealed has its manifest, unless the user has *)
(* deleted it or a program that is to write it again has removed it, and   *)
(* nobody has written it since: through kills, re-seals, stragglers and    *)
(* rebuilds (snapshot_mover.py, _seal_directory; rehydrate_filesystem).    *)
(* Where a removed manifest may be missing for good: ManifestRefreshed.    *)
SealedHasManifest ==
    \A d \in Dates : row[d] = "sealed" => manifest[d].mode # "absent" \/ d \in deleted

(* The day of a straggler keeps a manifest except while a host writes it:  *)
(* "Sealed flag stays 1 -- the dir is still sealed, just with a refreshed  *)
(* manifest" (Seal.swift, rewriteManifestForStraggler).                    *)
ManifestRefreshed ==
    \A d \in Dates :
        row[d] = "sealed"
        => \/ manifest[d].mode # "absent"
           \/ \E i \in Invs : DayOf[i] = d /\ host[i] = "rewriting"

(* Outside a rebuild's work, the event row of a snapshot in the archive    *)
(* names the archive, but for a snapshot that a host has copied and whose  *)
(* row it has not come to, or never came to (Archive.swift, moveOne;       *)
(* visits_rebuilder.py, rehydrate_filesystem).                             *)
DirectoriesTrue ==
    ~stale => \A i \in Invs :
                 i \in dir[DayOf[i]] /\ Ev(i) \in db.events
                 => place[i] = "archive" \/ i \in copied
=============================================================================
