# Browser Visit Logger: a TLA+ development

Browser Visit Logger records the pages a user visits, lets the user mark them,
and archives snapshots of them. In multi-laptop mode several laptops share what
they record through a sync server. This directory models that system in TLA+,
checks the models with TLC on small instances, and proves the main results for
all instances with TLAPS.

Paths below are relative to `src/`. *Logger* stands for
`browser-visit-logger`, *server* for `browser-visit-sync-server`.

## 1. The system

| Part | State | Operations |
|---|---|---|
| Chrome extension (*Logger*`/extension`) | pending visit per tab, icon per tab | log a page when its title is known, tag and snapshot, query for the icon colour |
| Native host BVLHost (*Logger*`/swift/Sources/BVLHost`) | none; one process per message | append action line, write the database in one transaction, archive the snapshot, append result line, answer, spawn a sync |
| Visits database (SQLite; schema in `schema.sql`) | visits, read_events, skimmed_events, snapshots, mover_errors, sync_state | statements issued by the host, the sync client, the verifier, the rebuilder; a second, canonical one on the server |
| Per-day logs (`~/browser-visits-<date>.log`) | append-only files | appended by the host, read by sync and rebuilder, moved by the seal pass |
| Sync client (*Logger*`/native-host/sync_client.py`) | cursors in sync_state, the open transaction, peers' mirror files | do_push, do_pull, errors, debounce, file lock |
| Sync server (*server*`/internal/server`, `/store`) | per-machine log mirror, canonical database | PushLogs (append, replay), PullLogs (stream), ExportDbSnapshot |
| Authentication (*server*`/internal/auth`) | enrolled certificates | look-up, comparison of the request's machine id |
| Verifier and BVLCore (*Logger*`/swift/Sources/BVLVerifier`, `/BVLCore`) | Downloads directory, archive, manifests | sweep, seal, orphan-log merge, verify, escalate errors |
| Python snapshot library and sealers (`browser-visit-snapshot-lib`, `snapshot_sealer.py`, `seal_completed_days.py`) | the same archive, on the VM or by hand | seal one day, seal all past days, merge orphan logs |
| Rebuilder (*Logger*`/native-host/visits_rebuilder.py`) | the database it builds | drop, replay of all logs, rehydration from the archive |
| Error rows (mover_errors) | a row per failing operation and target | record, clear, reconcile; escalate notifies the user |
| VM tools (`browser-visit-tools/manage_vm.py`, `manage_sync_server.py`) | the VM, its AWS resources, `vm.json`, what is installed on the VM | create, start, stop, terminate, purge; provision, deploy, enroll |
| `db_diff.py` | none | compares two databases |
| Other tools, installers, MCP server | local set-up | run by hand; read-only reports |

How the parts meet:

* the extension sends one message per visit or tag; each starts a BVLHost
  process, several of which may run at once;
* BVLHost and the sync client share the log files (one appends, the other reads,
  no lock) and the SQLite file (rollback journal; the client's transaction stays
  open across its calls; the host has no busy timeout);
* the sync client calls the server; a call given up after 30 s goes on there,
  next to the retry; the store's mutex covers the append and nothing else;
* PullLogs reads the mirror files of a laptop while PushLogs appends to them;
* sealing moves log files away from under both host and rebuilder;
* the rebuilder drops and refills the tables that hosts and sealers write;
* sync clients write and clear the error rows that the agent escalates;
* the VM tools send scripts that may outlive the command that sent them.

What makes the parts correct:

* *database*: replay is idempotent, a counter counts its event rows, and the
  same lines give the same contents whichever program replays them;
* *server store*: the mirror is a copy of the laptop's log, without holes,
  duplicates or renumbering, and an acknowledged line is both stored and replayed;
* *sync client*: a cursor never passes what has been delivered, never moves
  back in what survives a crash, and everything logged is delivered at last;
* *host*: a visit that is logged is in the laptop's own database;
* *archive*: a snapshot is in exactly one place its event row names, a sealed
  day's manifest lists its directory, and no log line is lost by sealing;
* *errors*: one notification per streak of failures, none for resolved ones;
* *rebuilder*: exit code 0 means that what was lost is back, and nothing else
  (true but for a log that is sealed under the rebuilder: section 4);
* *VM tools*: one VM, complete, and what was reported as done stays done (true
  unless two scripts about the same thing run at once);
* *extension*: each page visit is logged at most once, under its own title.

`PROJECT.json` lists the hazards, each at its line, with the properties that
cover it.

## 2. Modules

```
VisitDb  ---  SyncRpc  -+-  SyncStore   -+
                        +-  SyncLaptop  -+-  Sync  ---  SyncProps  -+-  MCSync
                                              |             |       +-  MCSyncTwo
VisitDb_proofs -------------------------- Sync_proofs  -----+
                                              |
                              SyncPush_proofs  ---  SyncPull_proofs

LogReplica (abstract; implemented by Sync, in SyncProps)     DbDiff (used by SyncProps)

SnapshotMove  ---  Snapshots  ---  SnapshotProps  -+-  MCSnapshots
                                                   +-  Snapshots_proofs

VisitDb   -+-  PySeal  ---  Rebuild  ---  RebuildProps  -+-  MCRecovery
ErrorRows  |                                             +-  Rebuild_proofs
           +-  SyncTrigger  ---  SyncTrigger_proofs

VmInfra  ---  VmServer  ---  Fleet  ---  FleetProps  -+-  MCFleet
                                                 +-  Fleet_proofs
```

The groups share no variable. What they have in common in the program is the
invocation of BVLHost, which each models from its own side, and the log files,
whose contents matter to sync, whose place to the archive, and both to recovery.
VisitDb and ErrorRows, the tables as values, are used by several.

### The sync side

**VisitDb** has no variables. A database is a record (visits rows, interest
marks, event rows, counters), a writer an operator on it. Three programs write:
`HostWrite` is the transaction in `main.swift` with `EventsTable.swift`,
`ReplayLine` is `replay.go`, `ReplayIntoDb` is `replay_into_db` in
`sync_client.py`. Titles and file names are dropped, and the directories of
events, which only the host, the mover and the rebuilder write (Rebuild has them
as `place`). `Holds(db, l)` says that a database has what a log line
says, `CountersExact` that counters count event rows.

**SyncRpc** has what both sides speak of: positions in a machine's logs
(`PeerCursor`), lines with their position (`LogLine`), and the calls in progress.
`handlers[m][s]` are PushLogs calls, with a flag that says whether anybody still
waits for the answer; `pull[m]` is the PullLogs stream, from request to the chunk
in flight.

**SyncStore** is the server. Its state is the mirror and the canonical database.

| Action | Code |
|---|---|
| `AppendLogLines` | `Store.AppendLogLines`, under its mutex: the groups by date up to the first gap; a gap answers Internal |
| `AppendFails` | the same with an I/O error in one group |
| `ReplayOne`, `ReplayFails`, `PushReturns` | the loop over `ReplayLine` in `Server.PushLogs`; a failed statement answers Internal and leaves at most its first effect |
| `PullBegins`, `ScanPeer`, `ReadLine`, `SendChunk` | `Server.PullLogs` and `Store.LinesAfter`: directory listed once, files read one after another and without a lock, chunks of `ChunkSize` |
| `Restart` | systemd restarts the process: handlers and streams are gone, files and database stay |

**SyncLaptop** is the host and the sync client.

| Action | Code |
|---|---|
| `HostBegins`, `AppendAction`, `HostStores`, `AppendResult` | `main.swift`: the day is pinned, action line, transaction (refused while the client's is open), result line |
| `SyncStarts`, `PushBatch` | `do_push`: dates listed once, files read in order, a call per `BatchSize` lines |
| `PushOk`, `PushError`, `PushTimeout` | `_send_push`; after an error the process commits its error rows and exits |
| `PushDone` | the cursor is set once, to the last line read; commit; the pull request is built from the table |
| `ApplyLine`, `SetPeerCursor`, `PullDone`, `PullEndsEarly` | `do_pull`: peer's mirror file, database, cursor per chunk, commit at the end or in main's handler |
| `SyncKilled` | the process dies: SQLite rolls back, the mirror files stay |
| `Midnight` | the clock |

`undo[m]` is the rollback journal: the state everybody else sees and a crash
returns to while the client has a transaction open. Python's sqlite3 opens it at
the first INSERT, UPDATE or DELETE, which is `clear_error` after a PushLogs answer
or the first statement of a pulled line.

Coarser than the code: `ReadLine` does not return the partial line that
`LinesAfter` can meet while an append is under way (store.go:170-178);
`PushBatch` may read several day files in one step; a line is replayed in one
step on the laptop, so that no event is inserted whose counter fails
(sync_client.py:257-266) before main commits.

**Sync** puts them together, adds the failures (at most `MaxFaults`), and the
fairness. **LogReplica** is the abstract specification of what they do together:
machines write logs, a server stores growing beginnings of them, cursors move
forward over what is stored, and nothing is written behind a cursor. **SyncProps**
maps Sync to it (`log` is the laptops' files, `stored` the mirror, `seen` the
cursors that a crash would leave) and states the properties. **DbDiff** is
`db_diff.py --tables visits`, which the run `db_diff` is about. Over its default
tables the tool reports more: each event of a page that was read, because only the
host writes the directory of an event (EventsTable.swift:96-100 against
replay.go:85), and each day, because the server has no rows of snapshots. So that
two databases have the same contents is said by `SameContents` and not by the
tool: the same urls, events and counters, and the same marks as far as log lines
carry them. A definition marked *Mutant* is a plausible error in the definition
after it; no specification uses it. Each shows that a property can fail.

### The archive side

**SnapshotMove** has what the host and the housekeeping agent both execute, one
file system call or statement a step, on the same files and the same database and
with nothing between them that excludes: `work[p]` is how far process `p` is.

| Action | Code |
|---|---|
| `RemoveOld`, `Copy`, `Protect` | `Archive.moveOne` (a)-(c): an old copy is removed, the file copied, made read-only |
| `UpdateDirectory` | (d): the event row that names Downloads names the archive |
| `CheckSealed`, `InsertSnapshotRow` | (e), (f): is the day sealed already, a row for it if there is none |
| `RemoveSource` | (g): only now the source goes; for a straggler the manifest is rewritten |
| `DropManifest`, `ListDirectory`, `LookupRow`, `WriteManifest`, `LockManifest` | `Seal.writeManifestFile` and `buildManifestRows`: old manifest removed, directory listed once, each file looked up, file written atomically, made read-only |
| `CutShort` | the step in hand throws or dies; a copy may be left half done |

**Snapshots** has the processes.

| Action | Code |
|---|---|
| `SaveSnapshot`, `GrowsOld`, `Midnight` | the extension's download, the age the sweep asks for, the clock |
| `HostBegins` | the message the extension sends when the download is complete; `todayISO` is pinned |
| `AppendAction`, `InsertToday`, `StoreEvent`, `ArchiveForTag`, `HostMoves`, `AppendResult` | `main.swift` from the action line to the result line |
| `TickBegins`, `SweepFile`, `SweepMoves`, `SweepEnds` | `Sweep.pass` |
| `SealDay`, `SealManifest`, `MoveLog`, `LockLog`, `FlipSealed`, `SealEnds` | `Seal.pass`, `sealDirectory`, `moveLogIntoSealedDir` |
| `MergeLog`, `AppendOrphan`, `RelockLog`, `UnlinkOrphan`, `MergeEnds` | `OrphanLog.mergePass` |
| `VerifyDay`, `TickEnds` | `verifyAllSealed`, `Verify.directory`, `updateErrorState`; `Valid` is the result of the checks |
| `StepThrows`, `StoreFails`, `SealThrows`, `MergeThrows` | the catch blocks |
| `HostKilled`, `AgentKilled` | the process dies at any step |

A snapshot's name gives its day, and its one event row gives the rest of a
manifest row, so that a manifest is the set of snapshots it lists, and a log is
the set of its lines. Modes of files are kept for manifest and sealed log, which
the verifier looks at. Not represented: names without the snapshot format, files that
are no snapshots, an archive root that cannot be resolved, error rows other than
`manifest_invalid`, messages without a snapshot, the sealer and the verifier
started by hand next to the agent.

Two assumptions are constants, so that both sides of each can be looked at:

* `SlowHosts = FALSE`: an invocation comes, and ends, before its snapshot is
  60 s old (`BVL_MOVER_MIN_AGE_SECONDS`). The age is the only thing that keeps
  host and sweep off the same file. With `TRUE` TLC finds the hazard behind it:
  the one finds the source and is about to remove an old copy, the other moves
  the file completely; then the first removes that copy and has no source left
  to copy. The snapshot is lost (`SnapshotKept`).
* `LateMerge = FALSE`: no invocation appends to a day's log while the agent
  merges that log, which is at the earliest after that day's end. With
  `TRUE` a line written between the merge's read and its unlink is lost
  (`LinesKept`).

### Recovery

**ErrorRows** is the mover_errors table as a value: record (an upsert that keeps
`notified` and never takes `immediate` back), clear, the reconciliation of a
directory's rows, what is immediate, and what escalate selects.

**PySeal** is the Python side of the archive: `snapshot_sealer.py`, run by hand on
one day, and `seal_completed_days.py`, both through `_seal_directory` of
`snapshot_mover.py`.

| Action | Code |
|---|---|
| `SnapshotSealer`, `SealCompletedDays` | the two `cli`s: which days have a directory and no manifest |
| `BuildManifestRows`, `WriteManifest` | `_write_manifest_file`: old manifest unlinked, files looked up, error rows for stray and orphan files, manifest written |
| `MoveLogIntoSealedDir`, `FlipSealed`, `ClearSealError` | the rest of `_seal_directory`; the move replaces a log that is there |
| `MergeOrphanLog`, `UnlinkOrphanLog`, `NothingToMerge` | `_orphan_log_merge_pass`, after the one day of `snapshot_sealer` |
| `SealThrows`, `MergeThrows`, `SealerKilled` | the except clauses, and a kill; the write may be cut short |

`seal_completed_days` is run here against the laptop's own database and logs; on
the VM it has the canonical database, whose rows have no directory, and no logs.

**Rebuild** adds the rebuilder and those it meets.

| Action | Code |
|---|---|
| `HostLogs`, `HostStores`, `HostResult` | `main.swift`: action line, transaction, result line |
| `HostCopies`, `HostUpdates`, `HostLooks`, `HostInserts` | `Archive.moveOne`: copy (76), UPDATE of the event row (90), is the day sealed (100), row of the day and removal of the source |
| `HostRemovesManifest`, `HostWritesManifest` | a straggler: `Seal.writeManifestFile` removes the manifest, reads the rows and writes |
| `HostLineFails`, `HostStoreFails`, `HostArchiveFails`, `HostKilled` | the first append or the transaction fails; any step of the archiving throws; a kill anywhere |
| `Midnight`, `DeleteManifest` | the clock; the user, who has a day sealed again as `snapshot_sealer` says |
| `SealerStarts`, `SealerWorks`, `SealerMovesLog`, `SealersFail` | the two programs of PySeal, next to hosts and rebuild |
| `RebuildBegins` | `cli`: --no-truncate, --log-only, --rehydrate-only |
| `DropVisits`, `DropEvents`, `DropSnapshots` | the four DROP statements, each committed by itself |
| `ListArchive`, `ListLogDir` | `_collect_log_paths`: the archive first, LOG_DIR after it |
| `OpenFile`, `ReplayOneLine`, `EndReplay` | `replay_logs`, `_replay_one_file`, `_apply_action`: by date, archive before LOG_DIR; actions wait in `pending` for their result, over files; a file that is gone ends the program |
| `RehydrateFilesystem` | phase 2, one transaction: sealed by the presence of a manifest, rows moved from Downloads to the archive |
| `RebuildEnds`, `RebuildKilled` | the exit code; a kill |

The constants are the `Options` that a rebuild may be called with, whether the user
deletes manifests (`UserDeletes`), `LateMerge` as on the archive side, and the bound
`MaxFaults`. History variables name what a property has to except, or to compare
with: `written` and `stored` (lines and transactions of the hosts), `deleted` (days
whose manifest somebody removed and nobody has written since), `resealed` (days
taken up by a sealer while their log was in the archive and lines of theirs in
LOG_DIR or still to come), `copied` (snapshots whose host has not come to the
UPDATE), `torn` (a DROP has left tables that disagree), `lossy` and `stale` (a
rebuild has still to replay, or to walk the archive), and in the rebuilder `quiet`
(nobody has disturbed it) and `moved` (a sealer took a log away between the listing
of the archive and the reading of that log).

Abstracted: a file is read in one step; a dropped table is an empty one; a replay
killed before its commit keeps the lines replayed so far, where SQLite rolls back
to a state the model also has; the locks of SQLite show as failing writes of the
host (`HostStoreFails`).

**SyncTrigger** is the frame around a sync: `main` of `sync_client.py` with its
lock and interval, the three error rows it writes, and `MoverErrors.escalate`, as
the query, the notification and the update that they are. The answers of the
server are free here: "ok", "denied" or "down".

### The VM

**VmInfra** is `manage_vm.py` with the parts of `_bvl_aws.py` it uses: instances,
the security group, role, policies, profile and link as a set, and `vm.json`. A
command is a sequence of calls to AWS, and `ToolDies` may come between any two.

**VmServer** is `manage_sync_server.py`. A command waits for the SSM agent, sends
a script and polls; a script is a sequence of lines, each with what it needs, and
stops at the first that fails; a command that gives up leaves its script running.
`acked` is what the operator has been told, always, and forgotten when the next
command about the same thing is sent. Its fields `deploys` and `lists` are history:
the last script about the build, or about a laptop, began beside another about it.
What a unit needs (`ServerNeeds`, `MountNeeds`, `SealerNeeds`) is what the unit
file names and the program imports, also where no script brings it: the sealer's
unit wants the user, the mount and, through `snapshot_mover.py:122`, `host.py` and
`schema.sql`.

Any build may be given to provision --and-deploy, which does not check the
architecture, and any architecture to a create on a VM that is there, which writes
it to vm.json. One region is modelled: with --region of another one create would
not see the VM.

**Fleet** puts the operator, the scripts, systemd and the failures together.

### Met on the way, and not run

* The proto comment says the client uses PushLogsResponse to advance its cursor,
  and the Logger's README (line 650) that the cursor advances on each
  acknowledgement; the client ignores the response and sets the cursor once after
  the last batch. The models follow the code.
* The prefix that `reconcileDirScoped` (Errors.swift:226) compares with has lost its
  leading slash, so no row of an absolute path is ever cleared by it.
* A rebuild drops the rows pulled from other laptops, and the cursors in sync_state
  stay: no later pull brings them back.

## 3. Properties

| Property | Says | Hazard |
|---|---|---|
| `MirrorIsPrefix` | the server's file is a prefix of the laptop's | two handlers with the same lines, retry after timeout |
| `NeverAGap` | no push is ever answered with a gap (it would be for ever) | cursor ahead of the server |
| `PushedIsStored` | a laptop's cursor never passes a line not both stored and replayed | failure between append and replay |
| `PulledIsApplied` | a peer cursor never passes a line not applied, in the transaction and in what a crash returns to | kill in mid-pull |
| `DaysInOrder` | a day's mirror is complete before the next day's begins | one cursor for all days, unlocked reads |
| `CountersMatchEvents` | counters count event rows in every database and in every rollback image | repeated replay |
| `CursorsAdvance` | committed cursors never move back | stale cursors in a request |
| `ImplementsReplica` | Sync implements LogReplica: no step writes behind a cursor, moves one over a line not stored, or changes a stored line | late lines, retries, kills, all at once |
| `SameUnion` | when all is delivered and no message was refused, all databases have the same urls, events and counters, and the same marks unless a message used alsoOfInterest | order of arrival |
| `PeerLogIsPrefix` | without interruption the copy of a peer's log is exact | chunk applied without cursor |
| `Converges` | again and again everything logged is on the server and on every peer | lost or stuck lines |
| `SnapshotKept` | a saved snapshot is in Downloads or whole in the archive | a kill, or two processes, in the middle of a move |
| `DownloadsRowsTrue` | an event row that names Downloads names a file that is there | order of UPDATE, unlink and the host's own INSERT |
| `LinesKept` | a line never leaves a day's log and its sealed copy together | late lines, orphan merge, kills |
| `AllArchived` | every snapshot ends whole in the archive, its row not naming Downloads | interrupted moves, left to the sweep |
| `DaysSealed` | every day that is over is sealed | a seal that died after it moved the log, and a late line that blocks the repetition |
| `VerdictsTrue` | again and again the flagged days are exactly the sealed days that are not in order | stragglers, half copies, logs that never were |
| `LinesKept` (recovery) | a line a host appended is in the log of its day, here or in the archive, but for days sealed again with late lines | re-seals, orphan merge, kills |
| `NothingForgotten` | after a rebuild with exit code 0 every logged and committed event is back, but for those days and unless a sealer took a log away between the two listings or before it was read | hosts and sealers at work during the rebuild |
| `NoPhantoms` | no event is in the database that no host committed | failed and cut-short invocations in the log |
| `CountersTrue` | counters count event rows, whatever is replayed twice, until a DROP tears the tables | merged logs, --no-truncate |
| `FirstDayWins` | an undisturbed rebuild gives a url the time of its first logged success | order of the files |
| `ExitTrue` | exit code 1 only for a reason: lines that are there once and in pairs are not skipped | a day in two files |
| `SealedHasManifest` | a day called sealed has its manifest, unless somebody removed it and nobody has written it since | kills, re-seals, stragglers, rebuilds |
| `DirectoriesTrue` | outside a rebuild, the row of an archived snapshot names the archive, but for one whose host has not come to the UPDATE or never did | rehydration after an interrupted rebuild |
| `OneVm` | there is never a second VM | create that died before it wrote vm.json |
| `LaunchedComplete` | a VM is launched with its group, role, policies and profile | half a create, half a purge |
| `EnabledMeansComplete` | an enabled unit has all that its command can give it, and the mount all it needs | failing lines, reboots, scripts that outlive their command |
| `AcksHold` | what was reported as done is so until the next command about it, but for what was reported while, or after, two scripts about it ran at once | timeouts, late scripts, reboots |
| `ToldOnce` | a streak of failures is reported at most once, and marked only if reported | rows deleted and made anew under escalate |
| `PushRowClearable` | a row for failed pushes implies lines to push, so a call that can clear it | do_push makes no call without lines |

## 4. Runs

| Run | Result | Shows |
|---|---|---|
| `sync_safety` | holds | seven safety properties, the refinement of LogReplica and the type invariant |
| `sync_live` | holds | `Converges`, with one fault and fair scheduling |
| `two_laptops` | holds | `SameUnion`, `PeerLogIsPrefix` |
| `late_line` | violated | a line written after midnight to the old day's file is never pushed |
| `own_visits` | violated | the host's write is refused while the sync's transaction is open |
| `db_diff` | violated | the of-interest mark that comes with read or skimmed is not in the log, so db_diff never reports convergence |
| `snapshots` | holds | the archive side: three safety and three liveness properties and the type invariant |
| `row_strands` | violated | a row stored after the sweep took the file names Downloads for ever |
| `manifest_stale` | violated | a move that crosses the seal of its day is in no manifest |
| `recovery` | holds | hosts, Python sealers, rebuilds and the user together: eight safety properties and the type invariant |
| `fleet` | holds | the operator's commands and the VM: four safety properties and the type invariant |
| `notifications` | holds | sync attempts and escalate: `ToldOnce`, `PushRowClearable` and the type invariant |

Several of these properties except a case. In each of them the exception is what the
code does, and a stronger statement, taken from the documentation, is false. The
stronger statements stand next to the others in the modules, each with a
configuration in which TLC finds it violated:

| Statement | Configuration (module) | What the counterexample shows | The documentation |
|---|---|---|---|
| `EveryLineKept` | `MCRecoveryReseal` (MCRecovery) | a line written after the seal recreates the log in LOG_DIR, the user deletes the manifest, the day is sealed again: `shutil.move` (snapshot_mover.py:359) puts the late lines in place of the archived log | snapshot_sealer.py:30-31 "to re-seal a directory, delete the manifest first" |
| `EveryLineKept` | `MCRecoveryRewrite` (MCRecovery) | the same without user or failure: while a straggler's host has removed the manifest to write it again (Seal.swift:146-151), `seal_completed_days` finds the day without one | visits_rebuilder.py:7 "side-channels that *are* still durable" |
| `ManifestRefreshed` | `MCRecoveryManifest` (MCRecovery) | a kill, or a throw, between the removal of a straggler's manifest and the write of the new one: the day stays sealed without one | Seal.swift:278-281 "the dir is still sealed, just with a refreshed manifest" |
| `ExitZeroComplete` | `MCRecoveryExit` (MCRecovery) | a sealer moves a log after the rebuilder has listed the archive (153-173) and before it lists LOG_DIR (175-182): it is in neither listing, nothing is skipped, the exit code is 0, a committed event is missing | *Logger*`/README.md`:532-535, 584-585 |
| `RebuiltCountersTrue` | `MCRecoveryDrop` (MCRecovery) | a host's write, or with a failure a kill, between two of the four DROPs (visits_rebuilder.py:393-395); the replay builds on tables that disagree | visits_rebuilder.py:441 "rely on idempotency of replay + rehydrate" |
| `RevokedStaysOut` | `MCFleetRevoke` (MCFleet) | an enroll is given up after 300 s and its script runs on; a revoke is reported as done; the late script enrolls the laptop again | *server*`/README.md`:207-209 "the change takes effect immediately" |
| `SealerHasAll` | `MCFleetSealer` (MCFleet) | all three provisions have succeeded, and the enabled timer's script cannot import `host` | manage_sync_server.py:63-65 "resolves on the VM" |
| `VmJsonTrue` | `MCFleetCreate` (MCFleet) | create, run again without the --arch of the first time, writes arm64 to vm.json (manage_vm.py:159-160, 295); the check of a build's architecture then refuses the right one | manage_vm.py:8-10 "a no-op" |
| `CheckedBuildFits` | `MCFleetArch` (MCFleet) | provision --and-deploy sends a build of the other architecture: there is no check (manage_sync_server.py:243-244) | lines 522-523, --force "skip the binary/VM arch check" |
| `EventuallyTold` | `MCSyncTold` (SyncTrigger) | a failed sync's row is due and stays so: on a laptop that syncs the agent that calls escalate is not installed (install_laptop.sh:56-57, 100; install.sh:355) | sync_client.py:22-24 "handles user-visible alerts" |

Bounds. `sync_safety` has laptop A with one invocation (two lines) a day for two
days and laptop B that pulls. Batches and chunks of two lines make full and
partial ones; two slots let an abandoned handler run beside the retry; two days
are the least for cursors that change the date, requests over two days, and the
order of files. One fault of any kind, at any point: the shortest loss with each
mutant needs at most one. `two_laptops` has both laptops write the same url on one
day, with equal and different timestamps, so that the same event row comes from
two places. `sync_live` is the first without the second slot. `late_line` needs
two invocations, one pinned before midnight and one after. In `own_visits` a
batch is one line, so that a second call follows the first within the open
transaction (500 lines in the code; a pull does the same with any number).

`snapshots` has two snapshots of the first day and a second day: the seal of the
first meets stragglers, a host in the middle of a move, and late lines, and the
second snapshot makes a directory that is neither empty nor a single file. One
invocation at a time next to the agent, since an invocation owns its snapshot;
two at once, and two failures, were checked for the safety properties alone. One
failure or kill at any step. `row_strands` allows slow
invocations, `manifest_stale` does not need them; neither needs a failure.

`recovery` has two scenarios in one run (module MCRecovery). In the first a page is
read on the first day and visited again on the second, so that there is an event
with a snapshot, a first visit and a later one, logs on two days and, after a late
line, two logs of one day; rebuilds have their default options. In the second the
page is only read, and either the user deletes manifests or rebuilds are asked for
--no-truncate with --log-only or with --rehydrate-only. Each has one failure or kill, at
any step of hosts, sealers and rebuild, save that the first has none within
`moveOne`, which the second has. An action constraint keeps the scenarios apart:
their product has twenty million states. There are no files of
the user in the archive; the threshold of notifications, which nothing here reads,
is 1.

`fleet` has two VMs one after the other, builds for both architectures, two scripts
at once, one laptop with an old and a new certificate, and one failure: a command
that dies, a line that fails, or a reboot. A state constraint leaves the second VM
to manage_vm: its disk is as empty as the first one's was. `notifications` has a
threshold of 2, so that a streak is not due at once, and one failure of escalate;
failures of sync attempts are not bounded. The configurations of the second table
are smaller; only `MCRecoveryManifest` and
`MCFleetRevoke` need a failure.

Deadlock is checked in all of them but `fleet`, where an operator without a VM
left to create may stop: elsewhere a sync, a tick or a rebuild can always start
again.

Fairness (`sync_live`). The server's goroutines are scheduled; an invocation of
the host, once begun, runs on; the sync process runs on and is started again,
which stands for the user going on browsing (BVLHost spawns one after each write,
`main.swift:86`). No visit, midnight or failure is required to happen, and
failures are finite. The server's fairness is per laptop, for its handlers and its
stream together: each does finite work, so neither starves the other.

Fairness (`snapshots`). A snapshot grows old; an invocation runs on; launchd
starts the agent again and again (`StartInterval` in the plist) and a tick runs
on. So it is on a laptop on its own. On one that syncs the agent is not installed
(install_laptop.sh:56-57, 100; install.sh:355), and the archive is swept and sealed
when somebody starts BVLVerifier. The browser, midnight and failures are free. The agent's fairness is that of
one process: it is always enabled, and each pass is finite.

`notifications` has only safety properties. `EventuallyTold`, in the second table, is
looked at under the fairness that there is: a sync attempt that has begun goes on,
and so does a pass of escalate. Nothing makes a pass begin on a laptop that syncs.

## 5. Proofs

Every theorem holds for every value of the constants that satisfies the named
ASSUMEs of the modules, and what its own ASSUME adds: any number of laptops, days,
lines, calls at once, batch sizes, scripts and failures. The inductive invariants
were first checked by TLC on the instances of the runs.

| Module | Theorem | Property | Assumed |
|---|---|---|---|
| Sync_proofs | `TypeCorrect`, `MirrorCorrect`, `CountersCorrect` | `TypeOK`, `MirrorIsPrefix`, `CountersMatchEvents` | |
| SyncPush_proofs | `NoGap` | `NeverAGap` | |
| | `DaysOrdered`, `PushedStored` | `DaysInOrder`, `PushedIsStored` | `~LateWrites` |
| SyncPull_proofs | `CursorsOnlyAdvance`, `UnionIsSame` | `CursorsAdvance`, `SameUnion` | |
| | `CopiesAreExact` | `PeerLogIsPrefix` | `faults = 0`: up to the first failure |
| | `PulledApplied`, `ReplicaImplemented` | `PulledIsApplied`, `ImplementsReplica` | `~LateWrites` |
| Snapshots_proofs | `TypeCorrect` | `TypeOK` | |
| | `NoSnapshotLost`, `DownloadsRowsCorrect` | `SnapshotKept`, `DownloadsRowsTrue` | `~SlowHosts` |
| | `NoLineLost` | `LinesKept` | `~LateMerge` |
| Rebuild_proofs | `TypeCorrect`, `CountersCorrect`, `NoPhantomsEver` | `TypeOK`, `CountersTrue`, `NoPhantoms` | |
| | `FirstDayAlwaysWins`, `ExitCodeTrue` | `FirstDayWins`, `ExitTrue` | |
| | `SealedHaveManifests` | `SealedHasManifest` | |
| | `NoLineLost`, `NothingIsForgotten` | `LinesKept`, `NothingForgotten` | `~LateMerge` |
| | `DirectoriesAreTrue` | `DirectoriesTrue` | `DistinctEvents` |
| SyncTrigger_proofs | `TriggerTypeCorrect`, `ToldOnceHolds`, `PushRowClearableHolds` | `TriggerTypeOK`, `ToldOnce`, `PushRowClearable` | |
| Fleet_proofs | `TypeCorrect`, `OneVmHolds`, `LaunchedCompleteHolds` | `TypeOK`, `OneVm`, `LaunchedComplete` | |
| | `EnabledUnitsAreComplete`, `AcknowledgedStays` | `EnabledMeansComplete`, `AcksHold` | |

What the assumptions mean, and why they are made:

* `~LateWrites`: no invocation appends to a day's log after a later day has begun.
  Without it the properties are false: the run `late_line` shows it for an
  invocation pinned before midnight. The theorems say that this is the only way.
* `~SlowHosts`, `~LateMerge`: section 2; `row_strands` shows what becomes of the
  first. `LateMerge` is the moment between the merge's last read of an orphan log
  and its unlink.
* `DistinctEvents`: no two invocations share an event. The event's key has the
  millisecond of the click in it.

The exceptions in the properties themselves are in section 3.

### The database

`VisitDb_proofs` has the facts about databases: `ReplaysAgree` (the server's and
the client's replay are one function), `ReplayedLineHolds`, `ReplayKeepsLines`,
`ReplayKeepsCounters`, `HostWriteKeepsCounters`. The counter facts rest on the
cardinality of the set of event rows of one tag and url, which is why a database's
event set is carried as finite.

### Sync

Three modules, each built on the one before.

`Sync_proofs`: types, with the lemmas on `Extend` and `AppendUpTo` (lines that fill
the offsets `Len(log)..n-1` make a sequence of length n that begins with the log);
`CountersInv`: besides each database the rollback image must count exactly, open or
closed, since a crash brings it back; `MirrorInv = MirrorIsPrefix /\
BatchesAreLogged`. The prefix alone is not inductive: an append trusts the request.
What it needs is that each entry of each batch, live or abandoned, is the line at
that offset of the laptop's log.

`SyncPush_proofs` describes each step of the protocol once, as what it does to
calls, stream, client and cursors (`HandlersMove`, `StreamMoves`, `SyncMoves`,
`PullMoves`, `CursorSteps`, `OthersKeep`), and proves on that

* `PositionsInv`: every position, in a cursor, in a rollback image, in a request, in
  the stream, in the client's hand, is one of a line the server has, save the one
  of a call that is still on its way. `NoHole`: a batch has all offsets between the
  end of the server's file and each of its entries. `NoGap` follows. It holds
  however late lines are written;
* `OrderInv`: the days still to read have lines, the earlier ones that will not be
  read are empty or behind the position, and what a call leaves out of earlier days
  is stored. `DaysOrdered` is one of its conjuncts;
* `ReplayInv`: what a position of do_push has passed is in the canonical database,
  or is still to be replayed by the very call the client waits for. With
  `PositionsInv` and `DaysInOrder` it gives `PushedStored`.

`SyncPull_proofs` adds

* `PeersInv`, `DeliveryInv`: what a position of the stream or of the client has
  passed is in the laptop's database and in its copy of the peer's log, or is in
  flight ahead of it, in the batch or in the chunk (`Covers`). A kill empties what
  is in flight and goes back to a cursor of which the same is true;
* `CursorsInv`: the order rollback image, cursor, chunk in hand, chunk, batch, scan
  position, for every peer. It gives that committed cursors only advance;
* the refinement of LogReplica: a host's append is its `Write`, an append of the
  server its `Store`, a commit its `Advance`, and all else a stutter. `Store` needs
  `MirrorInv`, `Advance` needs `CursorsInv` and that positions are stored, and
  `Write`, which forbids a line behind a cursor, needs `Today` and `DaysInOrder`;
* `SourceInv`: every row, mark and event of every database, rollback images
  included, comes from a line that some laptop has logged (`FromLines`), save a mark
  that an alsoOfInterest message adds, and so does all that is on its way;
* `OwnInv`: what a laptop has logged is in its own database, committed or not; or
  the invocation that logged it has still to store it; or it was refused, and the
  log says error or is about to. `UnionIsSame` follows: at rest two databases hold
  the same lines and nothing else (`EqualContents`), and `CountersInv` does the rest;
* `CopyInv`: until a failure every copy of a peer's log ends where the laptop has got
  to with that peer, in the chunk in hand or at the cursor (`Applied`), and the lines
  on their way continue from there one by one: the chunk, then the batch, and the
  scan stands behind the last (`ScanExact`). `PeerLogIsPrefix` is not inductive,
  because append_peer_line looks at nothing: only the chain says that the line it is
  given comes next. A kill undoes the cursors but not the appended lines, so
  `CopyInv` and the property both end with the first failure.

### The archive

`Snapshots_proofs` proves, besides `TypeCorrect` (with `WorkTyped` and `HostsHold`:
whoever moves a file has one),

* `NoSnapshotLost` and `DownloadsRowsCorrect` from one invariant, `Safe`. Neither
  property is inductive alone. `Owned` says that no two processes move the same
  snapshot, because an invocation's snapshot is young and its own, and what the
  agent has listed is not young; this is where `~SlowHosts` is used, and only
  here. `Sources` says what stays in Downloads until its move ends, so that the
  removal of an old copy never removes the only one, and the host's late INSERT
  finds the file still there. `Copies` says what a move has achieved so far: the
  copy is whole from `Protect` on, the row is right from `CheckSealed` on;
* `NoLineLost`: what the merge holds in hand covers the orphan log until the
  unlink, and a day without a sealed log has no sealed lines that a move could
  overwrite (`LogSafe`).

### Recovery

`Rebuild_proofs` has one invariant per question.

* `CountersInv` (a database that no DROP has torn counts exactly), and for
  `NoPhantomsEver` `HostsInv` and `LogsInv`: a line that says success was appended by
  an invocation that has committed, so a replay that wants the success line of an
  action puts back only what was there. The log of a day has lines of that day only,
  whichever of its two places it is in.
* `ExcuseInv`: a row says sealed, and a sealer moves a log or sets the flag, only
  where there is a manifest or where one was removed and not written since. No step
  takes manifest and excuse away together. It holds for every user and every kill.
* `CalmInv`: a day whose log is in the archive and that a sealer has taken up is
  *calm* (over, no invocation of it at work, nothing of it in LOG_DIR), or the history
  calls it resealed. So the move of a second seal replaces nothing, but on those days.
* `KeptInv`: before the merge unlinks an orphan log the sealed log covers it. With
  `CalmInv` it gives `NoLineLost`.
* `ForgetInv`: a committed and logged event that is not in the database (`Missing`) was
  dropped, and as long as the rebuild has skipped nothing and no log has outrun it
  (`Telling`) the action line is ahead of it (`AheadOf`): still to be listed, in a
  listed file, in the lines in hand, or waiting for its success line. Between the two
  listings that is where a log may slip through; `moved` says so, and the theorem
  says that nowhere else one does. A rebuild that has ended with nothing ahead has
  forgotten nothing.
* `PlaceInv`: an archived snapshot was copied by its invocation, which is still on its
  way to the UPDATE, or was cut short before it (`copied`), or has made the row name
  the archive; only the replay of that very row can change it, after which the
  rebuild has still to walk the archive.
* `FirstInv`, for a replay from nothing that is undisturbed and skips nothing: a
  success that was appended and is no longer ahead of the replay has given its url a
  time, which is a success of the url's first day, because the files are read day by
  day.
* `OrderInv` and `ExitInv`: an invocation appends its result after its action, so a
  result follows its action in the log, and in the sealed log continued by the log.
  In an undisturbed replay of paired, unrepeated lines each line ahead is there once,
  the action of a result in hand is not ahead any more, and the actions that wait
  are exactly those read whose result is ahead: so each result finds its action,
  and nothing is left waiting at the end.

### Notifications

`SyncTrigger_proofs`: `ToldOnce` alone is not inductive, because escalate acts on
rows that it selected earlier. `InHand` says what is still true of them: a row
selected and not deleted since is there and not marked, and at most one row is
between its notification and its update.

### The VM

`Fleet_proofs` has five invariants.

* `FleetInv` for `OneVm` and `LaunchedComplete`: create looks for instances when it
  begins and launches one much later. `Ensuring` bridges the two: in between there
  is no instance, and what is missing of the resources is still on create's list.
  It holds because one operator runs one command at a time, which VmInfra assumes.
* `ServerInv`: a script has the rest of its lines left, and if it did not fail what
  the others put in place is on the disk (`ScriptTrue`); what a line needed stays
  there. At most one script is waited for, and it is the one of the command in hand
  (`WatchTrue`).
* `FileInv`: vm.json names an instance, or none, and an architecture; with the others
  it gives `TypeCorrect`.
* `UnitsInv`: the line that enables a unit is the last of its script, so by
  `ScriptTrue` the unit has all that its command gives. The drive's unit follows from
  what its lines need.
* `AcksInv`: as long as the history of a thing is clean at most one script is about it
  (`Sole`); an acknowledgement that no overlap excepts is in force only while none is,
  for sending one withdraws it; and the script that is waited for, with no other beside
  it, has done what its lines say (`DeployTrue`, `EnrollTrue`).

### Only model-checked

`Converges`, `AllArchived`, `DaysSealed` and `VerdictsTrue` stay with TLC: liveness
under fairness is out of the prover's reach. Every other property of a
passing run is stated by a theorem of the table.

## 6. Not modelled, and the plan

Abstracted: torn and lost writes of the file system, a host append that is not
atomic, two invocations colliding in the database, TLS (the certificates enrolled
on the VM are in VmServer; every machine of Sync is enrolled), the staging bucket
and the read-only commands of the VM tools.

The order of work:

1. *(done)* VisitDb, SyncRpc, SyncStore, SyncLaptop, Sync; runs; type correctness,
   mirror and counters proved.
2. *(done)* SnapshotMove, Snapshots; runs; type correctness, no snapshot lost, rows
   true, no line lost proved.
3. *(done)* LogReplica and the refinement; DbDiff.
4. *(done)* ErrorRows, PySeal, Rebuild; the run `recovery`.
5. *(done)* SyncTrigger: lock, interval, error rows, escalation.
6. *(done)* VmInfra, VmServer, Fleet.
7. *(done)* Theorems for the safety properties of Sync, its refinement, Rebuild and
   Fleet.
8. An abstract archive, a snapshot waiting or archived and a day open or sealed,
   implemented by Snapshots.
9. A laptop with both a sync client and a rebuilder, for the cursors that a rebuild
   leaves behind.

Left out for good: the extension (callbacks of the browser; its messages are
constants of the models), `reading_list.py`, `migrate_icloud_to_gdrive.py`,
`reset.py`, `fetch_vm_snapshot.py` and the installers (run by hand, one at a time),
authentication and logging (stateless), the MCP server and the reports (read-only).
