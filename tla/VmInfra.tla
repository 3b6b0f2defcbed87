------------------------------ MODULE VmInfra -------------------------------
(***************************************************************************)
(* manage_vm.py: the VM of the sync server and the AWS resources around    *)
(* it, all found again by tag or by name, and vm.json, which remembers the *)
(* VM on the operator's laptop.  One operator runs one command at a time;  *)
(* a command may die between any two calls to AWS.                         *)
(*                                                                         *)
(* Abstracted: AMI, instance type and addresses; an instance that is       *)
(* stopping has stopped; what AWS answers is up to date.  There is one     *)
(* region: instances are looked for region by region, so a create that is  *)
(* given another one does not see the VM and launches a second.            *)
(***************************************************************************)
EXTENDS Integers, Sequences, FiniteSets

CONSTANTS
    MaxVms,     \* instances ever created (bound)
    NoVm,       \* no instance id in vm.json
    Arches      \* x86_64 and arm64

Vms == 1..MaxVms        \* in the order of their creation

ASSUME MaxVmsAssumption == MaxVms \in Nat
ASSUME NoVmAssumption == NoVm \notin Vms
ASSUME ArchesAssumption == "none" \notin Arches

VARIABLES
    inst,       \* inst[v]: state and architecture of an instance
    infra,      \* the shared resources that exist, and their links
    file,       \* vm.json
    tool        \* the command in hand

infraVars == <<inst, infra, file, tool>>

(* In the order in which create makes sure of them: security group, role,  *)
(* its two policies, instance profile, and the role in the profile.        *)
EnsureSteps == <<"sg", "role", "core", "bucket_policy", "profile", "link">>
Resources == {EnsureSteps[k] : k \in 1..Len(EnsureSteps)}

(* The order of _purge_infra.                                              *)
PurgeSteps == <<"sg", "link", "profile", "bucket_policy", "core", "role">>

IdleTool == [pc |-> "idle", cmd |-> "none", arg |-> "none", todo |-> <<>>]

LiveStates == {"pending", "running", "stopped"}
Live == {v \in Vms : inst[v].st \in LiveStates}

(* Is v the instance that resolve_instance_id settles on?                  *)
Resolved(v) == v \in Live /\ (file.id = v \/ (file.id \notin Live /\ Live = {v}))

InfraInit ==
    /\ inst = [v \in Vms |-> [st |-> "none", arch |-> "none", complete |-> FALSE]]
    /\ infra = {}
    /\ file = [id |-> NoVm, arch |-> "none"]
    /\ tool = IdleTool

(***************************************************************************)
(* create                                                                  *)
(***************************************************************************)
(* With one instance there is nothing to do but to note it; the recorded   *)
(* architecture is that of the option.                                     *)
CreateFindsVm(a) ==
    /\ tool.pc = "idle"
    /\ Cardinality(Live) = 1
    /\ file' = [id |-> CHOOSE v \in Live : TRUE, arch |-> a]
    /\ UNCHANGED <<inst, infra, tool>>

(* Mutant of CreateBegins: no look at what is there.                       *)
CreateBlindly(a) ==
    /\ tool.pc = "idle"
    /\ tool' = [pc |-> "ensure", cmd |-> "create", arg |-> a, todo |-> EnsureSteps]
    /\ UNCHANGED <<inst, infra, file>>

CreateBegins(a) ==
    /\ tool.pc = "idle"
    /\ Live = {}
    /\ tool' = [pc |-> "ensure", cmd |-> "create", arg |-> a, todo |-> EnsureSteps]
    /\ UNCHANGED <<inst, infra, file>>

(* Mutant of EnsureInfra: policies are attached only to a new role.        *)
EnsureNewRole ==
    /\ tool.pc = "ensure"
    /\ tool.todo # <<>>
    /\ infra' = infra \cup {Head(tool.todo)}
    /\ tool' = [tool EXCEPT !.todo = IF Head(@) = "role" /\ "role" \in infra
                                     THEN Tail(Tail(Tail(@))) ELSE Tail(@)]
    /\ UNCHANGED <<inst, file>>

(* Find or create the next resource.                                       *)
EnsureInfra ==
    /\ tool.pc = "ensure"
    /\ tool.todo # <<>>
    /\ infra' = infra \cup {Head(tool.todo)}
    /\ tool' = [tool EXCEPT !.todo = Tail(@)]
    /\ UNCHANGED <<inst, file>>

RunInstances(v) ==
    /\ tool.pc = "ensure"
    /\ tool.todo = <<>>
    /\ inst[v].st = "none"
    /\ \A w \in Vms : w < v => inst[w].st # "none"
    /\ inst' = [inst EXCEPT ![v] = [st |-> "pending", arch |-> tool.arg,
                                    complete |-> infra = Resources]]
    /\ tool' = [tool EXCEPT !.pc = "save"]
    /\ UNCHANGED <<infra, file>>

SaveState(v) ==
    /\ tool.pc = "save"
    /\ v \in Live
    /\ \A w \in Live : w <= v
    /\ file' = [id |-> v, arch |-> tool.arg]
    /\ tool' = IdleTool
    /\ UNCHANGED <<inst, infra>>

(***************************************************************************)
(* start, stop, reboot and terminate                                       *)
(***************************************************************************)
Booted(v) ==
    /\ inst[v].st = "pending"
    /\ inst' = [inst EXCEPT ![v].st = "running"]
    /\ UNCHANGED <<infra, file, tool>>

StartVm(v) ==
    /\ tool.pc = "idle"
    /\ Resolved(v)
    /\ inst[v].st = "stopped"
    /\ inst' = [inst EXCEPT ![v].st = "pending"]
    /\ UNCHANGED <<infra, file, tool>>

StopVm(v) ==
    /\ tool.pc = "idle"
    /\ Resolved(v)
    /\ inst[v].st = "running"
    /\ inst' = [inst EXCEPT ![v].st = "stopped"]
    /\ UNCHANGED <<infra, file, tool>>

RebootVm(v) ==
    /\ tool.pc = "idle"
    /\ Resolved(v)
    /\ inst[v].st = "running"
    /\ UNCHANGED infraVars

TerminateVm(v, purge) ==
    /\ tool.pc = "idle"
    /\ Resolved(v)
    /\ inst' = [inst EXCEPT ![v].st = "gone"]
    /\ tool' = IF purge THEN [IdleTool EXCEPT !.pc = "purge", !.todo = PurgeSteps] ELSE tool
    /\ UNCHANGED <<infra, file>>

(* The security group may still be in use, which is only worth a warning;  *)
(* the first call about IAM that fails ends the purge.                     *)
PurgeInfra ==
    LET r == Head(tool.todo) IN
    /\ tool.pc = "purge"
    /\ \/ r = "sg"
          /\ infra' \in {infra, infra \ {r}}
          /\ tool' = [tool EXCEPT !.todo = Tail(@)]
       \/ r \in infra \ {"sg"}
          /\ infra' = infra \ {r}
          /\ tool' = IF Tail(tool.todo) = <<>> THEN IdleTool
                     ELSE [tool EXCEPT !.todo = Tail(@)]
       \/ r \notin infra \cup {"sg"}
          /\ tool' = IdleTool /\ infra' = infra
    /\ UNCHANGED <<inst, file>>

(* The command in hand throws, or is interrupted.                          *)
ToolDies ==
    /\ tool.pc # "idle"
    /\ tool' = IdleTool
    /\ UNCHANGED <<inst, infra, file>>

InfraTypeOK ==
    /\ inst \in [Vms -> [st : {"none", "gone"} \cup LiveStates,
                         arch : Arches \cup {"none"}, complete : BOOLEAN]]
    /\ infra \subseteq Resources
    /\ file \in [id : Vms \cup {NoVm}, arch : Arches \cup {"none"}]
=============================================================================
