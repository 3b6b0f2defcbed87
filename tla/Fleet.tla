------------------------------- MODULE Fleet --------------------------------
(***************************************************************************)
(* The operator's commands and the VM they set up, while commands die or   *)
(* time out, scripts fail and the VM is rebooted under them.               *)
(***************************************************************************)
EXTENDS VmServer

CONSTANTS
    Commands,   \* the commands that the operator uses
    MaxFaults   \* failures in a behaviour (bound)

AllCommands == {"provision", "provision_drive", "provision_sealer", "deploy",
                "enroll", "revoke", "start", "stop", "restart"}

ASSUME CommandsAssumption == Commands \subseteq AllCommands

VARIABLE faults

vars == <<infraVars, vmVars, faults>>

Init == InfraInit /\ VmInit /\ faults = 0

Args(cmd) ==
    CASE cmd = "deploy" -> Binaries
      [] cmd = "provision" -> {None} \cup Binaries       \* --and-deploy
      [] cmd \in {"enroll", "revoke"} -> Machines \X Certs
      [] OTHER -> {None}

ManageVm ==
    \/ \E a \in Arches :
          \/ CreateBegins(a) /\ UNCHANGED vmVars
          \/ CreateFindsVm(a) /\ UNCHANGED vmVars
    \/ EnsureInfra /\ UNCHANGED vmVars
    \/ PurgeInfra /\ UNCHANGED vmVars
    \/ \E v \in Vms :
          \/ RunInstances(v) /\ FreshDisk
          \/ SaveState(v) /\ UNCHANGED vmVars
          \/ Booted(v) /\ Boot
          \/ StartVm(v) /\ UNCHANGED vmVars
          \/ StopVm(v) /\ PowerOff
          \/ RebootVm(v) /\ Boot
          \/ \E purge \in BOOLEAN : TerminateVm(v, purge) /\ PowerOff

ManageServer ==
    \/ /\ Live # {}
       /\ \E cmd \in Commands : \E arg \in Args(cmd) : RemoteBegins(cmd, arg)
    \/ SendCommand \/ AgentOffline \/ RemoteFails
    \/ \E k \in 1..Len(scripts) : RemoteSucceeds(k)

VmRuns ==
    \/ RestartOnFailure
    \/ \E k \in 1..Len(scripts) : ScriptLine(k) \/ LineCannot(k)

Fault ==
    /\ faults < MaxFaults
    /\ faults' = faults + 1
    /\ \/ ToolDies /\ Unwatch /\ UNCHANGED <<disk, tmp, srv, enrolled, acked>>
       \/ \E k \in 1..Len(scripts) : ScriptFails(k)
       \/ Online /\ Boot /\ UNCHANGED infraVars

Next ==
    \/ (ManageVm \/ ManageServer \/ VmRuns) /\ UNCHANGED faults
    \/ Fault

Spec == Init /\ [][Next]_vars
=============================================================================
