----------------------------- MODULE FleetProps -----------------------------
(***************************************************************************)
(* What the operator can rely on.                                          *)
(***************************************************************************)
EXTENDS Fleet

TypeOK ==
    /\ InfraTypeOK
    /\ disk \subseteq Steps
    /\ tmp \in Binaries \cup {None}
    /\ srv \in [installed : Binaries \cup {None}, up : BOOLEAN,
                running : Binaries \cup {None}]
    /\ srv.running # None => srv.up /\ Live # {}
    /\ enrolled \in [Machines -> Certs \cup {None}]
    /\ faults \in Nat

(* There is never a second VM: not if create is run again after it died    *)
(* between the launch and the write of vm.json, nor after a terminate      *)
(* (manage_vm.py, cmd_create).                                             *)
OneVm == Cardinality(Live) <= 1

(* A VM is launched with its security group, and with a profile that has   *)
(* the role and both its policies, whatever an earlier create or purge     *)
(* left half done (manage_vm.py, _ensure_iam and _purge_infra).            *)
LaunchedComplete == \A v \in Live : inst[v].complete

(* What a unit needs and the command that enables it does not bring: the   *)
(* build is left to deploy, the user and the mount of the sealer to the    *)
(* other two provisions, and its two other modules to nobody.              *)
LeftToOthers(unit) ==
    CASE unit = "enable" -> {"binary"}
      [] unit = "timer"  -> {"user", "mount", "host.py", "schema.sql"}
      [] OTHER -> {}

(* A unit that is enabled has all that its command can give it, and the    *)
(* mount all that it needs, through failing lines, scripts that outlive    *)
(* their command, and reboots: a boot starts what is enabled               *)
(* (manage_sync_server.py, cmd_provision and its two siblings).            *)
EnabledMeansComplete == \A unit \in disk : UnitNeeds(unit) \subseteq disk \cup LeftToOthers(unit)

(* What the operator was told is in place stays in place until the next    *)
(* command about it: the build that deploy has installed is the one that   *)
(* runs, a revoked laptop is out and an enrolled one is in.  Excepted is   *)
(* what he was told while, or after, two scripts about the same thing ran  *)
(* at once, until a script about it has begun alone                        *)
(* (manage_sync_server.py, _deploy, _enroll_remote).                       *)
AcksHold ==
    /\ acked.binary # Unknown /\ ~acked.deploys =>
          srv.installed = acked.binary /\ srv.running \in {None, acked.binary}
    /\ \A m \in Machines : acked.cert[m] # Unknown /\ ~acked.lists[m] =>
          enrolled[m] = acked.cert[m]

(* A laptop that the operator was told is cut off stays cut off, without   *)
(* that exception: an enroll that has timed out may still run.             *)
RevokedStaysOut == \A m \in Machines : acked.cert[m] = None => enrolled[m] = None

(* With the timer and the mount enabled the sealer has all that it needs   *)
(* (manage_sync_server.py, _SEALER_SCRIPTS).                               *)
SealerHasAll == {"timer", "mount"} \subseteq disk => SealerNeeds \subseteq disk

(* Once vm.json names the VM it has the VM's architecture, because a       *)
(* second create changes nothing (manage_vm.py, cmd_create).               *)
VmJsonTrue == file.id \in Live => file.arch = inst[file.id].arch

(* A build that is on its way to the VM was made for it, as long as        *)
(* vm.json says what the VM is (manage_sync_server.py, _check_arch).       *)
CheckedBuildFits ==
    /\ tool.cmd = "deploy"
    /\ file.id \in Live /\ file.arch = inst[file.id].arch
    => ArchOf[tool.arg] = file.arch
=============================================================================
