------------------------------ MODULE VmServer ------------------------------
(***************************************************************************)
(* manage_sync_server.py: what the operator's commands do on the VM.  Each *)
(* command finds the VM, waits for its SSM agent, sends a shell script     *)
(* that stops at its first failing line (set -e), and polls for the        *)
(* result.  A command that gives up waiting leaves its script running.     *)
(*                                                                         *)
(* A script is the sequence of the things its lines put in place; lines    *)
(* between which nothing differs for other scripts are one.  Abstracted:   *)
(* file modes, the staging bucket, deploy --force, and status, logs and    *)
(* health, which only look.                                                *)
(***************************************************************************)
EXTENDS VmInfra

CONSTANTS
    Binaries,   \* builds of sync-server
    ArchOf,     \* ArchOf[b]: the architecture in the build's name
    Machines,   \* laptops
    Certs,      \* client certificates
    MaxScripts  \* scripts that run on the VM at once (bound)

ASSUME MaxScriptsAssumption == MaxScripts \in Nat
ASSUME ArchOfAssumption == ArchOf \in [Binaries -> Arches]
ASSUME BinariesAssumption == "none" \notin Binaries

VARIABLES
    disk,       \* what the scripts have put in place on the VM
    tmp,        \* /tmp/sync-server.new
    srv,        \* the installed build, the service, and the running build
    enrolled,   \* enrolled[m]: the certificate in enrolled_machines.db
    scripts,    \* the scripts that run on the VM
    acked       \* what the operator was told is in place, and whether the
                \* last script about it has run beside another about it

vmVars == <<disk, tmp, srv, enrolled, scripts, acked>>

None == "none"
Unknown == "unknown"

ProvisionScript == <<"user", "dirs", "own_data", "unit", "tls", "own_etc", "enable">>
DriveScript == <<"rclone", "mountpoint", "conf", "drive_unit", "own_conf", "mount">>
SealerScript == <<"lib", "timer_unit", "timer">>
DeployScript == <<"fetch", "install", "unlink", "restart">>
EnrollScript(op) == <<op, "own_db">>

(* start, stop and restart are one line of systemctl.                      *)
Script(cmd) ==
    CASE cmd = "provision" -> ProvisionScript
      [] cmd = "provision_drive" -> DriveScript
      [] cmd = "provision_sealer" -> SealerScript
      [] cmd = "deploy" -> DeployScript
      [] cmd = "enroll" -> EnrollScript("insert")
      [] cmd = "revoke" -> EnrollScript("delete")
      [] OTHER -> <<cmd>>

(* What a line fails without.                                              *)
Needs(step) ==
    CASE step \in {"own_data", "own_etc"} -> {"user", "dirs"}
      [] step \in {"tls", "conf", "insert", "delete"} -> {"dirs"}
      [] step \in {"enable", "restart", "start", "stop"} -> {"unit"}
      [] step \in {"mountpoint", "own_conf", "own_db"} -> {"user"}
      [] step = "mount" -> {"rclone", "drive_unit", "mountpoint", "conf", "own_conf"}
      [] step = "timer" -> {"timer_unit"}
      [] OTHER -> {}

(* What the units fail without.  snapshot_mover imports host.py, which     *)
(* reads schema.sql: no script brings the two.                             *)
ServerNeeds == {"user", "dirs", "own_data", "unit", "tls", "own_etc", "binary"}
MountNeeds == {"rclone", "user", "dirs", "mountpoint", "conf", "own_conf", "drive_unit"}
SealerNeeds == {"user", "mount", "lib", "timer_unit", "host.py", "schema.sql"}

UnitNeeds(fact) ==
    CASE fact = "enable" -> ServerNeeds
      [] fact = "mount"  -> MountNeeds
      [] fact = "timer"  -> SealerNeeds
      [] OTHER -> {}

Steps == UNION {{Script(c)[k] : k \in 1..Len(Script(c))} :
                c \in {"provision", "provision_drive", "provision_sealer"}}

FreshServer == [installed |-> None, up |-> FALSE, running |-> None]
NothingAcked == [binary |-> Unknown, cert |-> [m \in Machines |-> Unknown],
                 deploys |-> FALSE, lists |-> [m \in Machines |-> FALSE]]

VmInit ==
    /\ disk = {} /\ tmp = None /\ srv = FreshServer
    /\ enrolled = [m \in Machines |-> None]
    /\ scripts = <<>>
    /\ acked = NothingAcked

(***************************************************************************)
(* systemd: Restart=on-failure and WantedBy=multi-user.target.             *)
(***************************************************************************)
VmArch == inst[CHOOSE v \in Live : TRUE].arch

Startable(s) ==
    /\ ServerNeeds \ {"binary"} \subseteq disk
    /\ s.installed # None
    /\ ArchOf[s.installed] = VmArch

Started(s) == [s EXCEPT !.up = TRUE, !.running = IF Startable(s) THEN s.installed ELSE None]

RestartOnFailure ==
    /\ srv.up /\ srv.running = None
    /\ Startable(srv)
    /\ srv' = Started(srv)
    /\ UNCHANGED <<infraVars, disk, tmp, enrolled, scripts, acked>>

(* What becomes of the VM's state when it goes down, boots or is replaced. *)
(* Mutant of PowerOff: the server is taken to run on.                      *)
PowerOffOnly ==
    /\ scripts' = <<>> /\ tmp' = None
    /\ UNCHANGED <<disk, srv, enrolled, acked>>

PowerOff ==
    /\ srv' = [srv EXCEPT !.up = FALSE, !.running = None]
    /\ scripts' = <<>> /\ tmp' = None
    /\ UNCHANGED <<disk, enrolled, acked>>

Boot ==
    /\ srv' = IF "enable" \in disk THEN Started(srv)
              ELSE [srv EXCEPT !.up = FALSE, !.running = None]
    /\ scripts' = <<>> /\ tmp' = None
    /\ UNCHANGED <<disk, enrolled, acked>>

FreshDisk ==
    /\ disk' = {} /\ tmp' = None /\ srv' = FreshServer /\ scripts' = <<>>
    /\ enrolled' = [m \in Machines |-> None]
    /\ acked' = NothingAcked

(***************************************************************************)
(* The commands.  arg is a build, or a pair of a laptop and a certificate. *)
(***************************************************************************)
Deploys(s) == s.cmd = "deploy"
Lists(s, m) == s.cmd \in {"enroll", "revoke"} /\ s.arg[1] = m

(* What the operator no longer knows once the command is under way.  The   *)
(* deploys and lists fields are history: is there a script about the same  *)
(* thing, left by an earlier command, that the new one runs beside?        *)
Forget(cmd, arg) ==
    CASE cmd = "deploy" ->
            [acked EXCEPT !.binary = Unknown,
                          !.deploys = \E k \in 1..Len(scripts) : Deploys(scripts[k])]
      [] cmd \in {"enroll", "revoke"} ->
            [acked EXCEPT !.cert[arg[1]] = Unknown,
                          !.lists[arg[1]] = \E k \in 1..Len(scripts) : Lists(scripts[k], arg[1])]
      [] OTHER -> acked

Learn(cmd, arg) ==
    CASE cmd = "deploy" -> [acked EXCEPT !.binary = arg]
      [] cmd = "enroll" -> [acked EXCEPT !.cert[arg[1]] = arg[2]]
      [] cmd = "revoke" -> [acked EXCEPT !.cert[arg[1]] = None]
      [] OTHER -> acked

(* _check_arch compares with vm.json.                                      *)
ArchChecked(b) == file.arch \in {"none", ArchOf[b]}

RemoteBegins(cmd, arg) ==
    /\ tool.pc = "idle"
    /\ \E v \in Vms : Resolved(v)
    /\ cmd = "deploy" => ArchChecked(arg)
    /\ tool' = [IdleTool EXCEPT !.pc = "online", !.cmd = cmd, !.arg = arg]
    /\ UNCHANGED <<inst, infra, file, vmVars>>

Online == \E v \in Vms : Resolved(v) /\ inst[v].st = "running"

SendCommand ==
    /\ tool.pc = "online"
    /\ Online
    /\ Len(scripts) < MaxScripts
    /\ scripts' = Append(scripts, [cmd |-> tool.cmd, arg |-> tool.arg,
                                   left |-> Script(tool.cmd), watched |-> TRUE, failed |-> FALSE])
    /\ acked' = Forget(tool.cmd, tool.arg)
    /\ tool' = [tool EXCEPT !.pc = "wait"]
    /\ UNCHANGED <<inst, infra, file, disk, tmp, srv, enrolled>>

AgentOffline ==
    /\ tool.pc = "online"
    /\ ~Online
    /\ tool' = IdleTool
    /\ UNCHANGED <<inst, infra, file, vmVars>>

Watched == {k \in 1..Len(scripts) : scripts[k].watched}
Without(s, k) == SubSeq(s, 1, k - 1) \o SubSeq(s, k + 1, Len(s))

(* provision --and-deploy goes on without _check_arch.                     *)
RemoteSucceeds(k) ==
    LET s == scripts[k] IN
    /\ tool.pc = "wait"
    /\ k \in Watched
    /\ s.left = <<>> /\ ~s.failed
    /\ acked' = Learn(s.cmd, s.arg)
    /\ scripts' = Without(scripts, k)
    /\ tool' = IF s.cmd = "provision" /\ s.arg \in Binaries
               THEN [tool EXCEPT !.pc = "online", !.cmd = "deploy"] ELSE IdleTool
    /\ UNCHANGED <<inst, infra, file, disk, tmp, srv, enrolled>>

(* A script that failed, or that a reboot has ended.                       *)
RemoteFails ==
    /\ tool.pc = "wait"
    /\ \/ Watched = {} /\ scripts' = scripts
       \/ \E k \in Watched : scripts[k].failed /\ scripts' = Without(scripts, k)
    /\ tool' = IdleTool
    /\ UNCHANGED <<inst, infra, file, disk, tmp, srv, enrolled, acked>>

(* run_remote raises TimeoutError after 300 s, or the command is killed.   *)
Unwatch == scripts' = [k \in 1..Len(scripts) |-> [scripts[k] EXCEPT !.watched = FALSE]]

(***************************************************************************)
(* The scripts.                                                            *)
(***************************************************************************)
(* Mutant of ScriptFails: without set -e the next line runs all the same.  *)
ScriptGoesOn(k) ==
    LET s == scripts[k] IN
    /\ s.left # <<>>
    /\ scripts' = [scripts EXCEPT ![k].left = Tail(@)]
    /\ UNCHANGED <<infraVars, disk, tmp, srv, enrolled, acked>>

(* set -euo pipefail.                                                      *)
ScriptFails(k) ==
    LET s == scripts[k] IN
    /\ s.left # <<>>
    /\ scripts' = IF s.watched
                  THEN [scripts EXCEPT ![k].left = <<>>, ![k].failed = TRUE]
                  ELSE Without(scripts, k)
    /\ UNCHANGED <<infraVars, disk, tmp, srv, enrolled, acked>>

(* Mutant of Installs: the build is not the one that was fetched.          *)
InstallsStale == srv.installed

Installs == tmp

(* What a line does to the service, and to the list of enrolled laptops.   *)
Serving(line) ==
    CASE line = "install" -> [srv EXCEPT !.installed = Installs]
      [] line = "restart" -> Started(srv)
      [] line = "start" /\ srv.running = None -> Started(srv)
      [] line = "stop" -> [srv EXCEPT !.up = FALSE, !.running = None]
      [] OTHER -> srv

Enrolled(line, arg) ==
    CASE line = "insert" -> [enrolled EXCEPT ![arg[1]] = arg[2]]
      [] line = "delete" -> [enrolled EXCEPT ![arg[1]] = None]
      [] OTHER -> enrolled

CanRun(line) == Needs(line) \subseteq disk /\ (line = "install" => tmp # None)

ScriptLine(k) ==
    LET s == scripts[k]
        l == Head(s.left)
    IN  /\ s.left # <<>>
        /\ CanRun(l)
        /\ disk' = IF l \in Steps THEN disk \cup {l} ELSE disk
        /\ tmp' = CASE l = "fetch" -> s.arg [] l = "unlink" -> None [] OTHER -> tmp
        /\ srv' = Serving(l)
        /\ enrolled' = Enrolled(l, s.arg)
        /\ scripts' = IF Tail(s.left) = <<>> /\ ~s.watched THEN Without(scripts, k)
                      ELSE [scripts EXCEPT ![k].left = Tail(@)]
        /\ UNCHANGED <<infraVars, acked>>

LineCannot(k) ==
    /\ scripts[k].left # <<>>
    /\ ~CanRun(Head(scripts[k].left))
    /\ ScriptFails(k)
=============================================================================
