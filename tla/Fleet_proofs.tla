---------------------------- MODULE Fleet_proofs ----------------------------
(***************************************************************************)
(* The proofs for the VM and what runs on it, for any number of instances, *)
(* builds, laptops, scripts and failures.                                  *)
(*   FleetInv    one VM at most, launched with all its resources           *)
(*   ServerInv   what each script has left to do and has done, and which   *)
(*               script the command in hand waits for                      *)
(*   FileInv     vm.json names an instance, or none                        *)
(*   UnitsInv    an enabled unit has all that its command can give it      *)
(*   AcksInv     what the operator was told stays true, and no script that *)
(*               could undo it runs, unless two have run at once           *)
(***************************************************************************)
EXTENDS FleetProps, FiniteSetTheorems, SequenceTheorems, TLAPS

ToolFields == {"pc", "cmd", "arg", "todo"}

InstOK ==
    inst \in [Vms -> [st : {"none", "gone"} \cup LiveStates,
                      arch : Arches \cup {"none"}, complete : BOOLEAN]]

(* While create works through its resources there is no instance, and what *)
(* it has not come to yet is all that can be missing: this is what makes   *)
(* OneVm and LaunchedComplete inductive, since create looks for instances  *)
(* only when it begins and launches one much later.                        *)
Ensuring ==
    tool.pc = "ensure" =>
        /\ Live = {}
        /\ tool.arg \in Arches
        /\ tool.todo \in Seq(Resources)
        /\ \A r \in Resources : r \in infra \/ \E j \in 1..Len(tool.todo) : tool.todo[j] = r

Unique == \A v, w \in Live : v = w

FleetInv ==
    /\ DOMAIN tool = ToolFields
    /\ infra \subseteq Resources
    /\ InstOK
    /\ Ensuring
    /\ Unique
    /\ LaunchedComplete

(* The fields that the commands set.                                       *)
LEMMA IdleToolFields == DOMAIN IdleTool = ToolFields /\ IdleTool.pc = "idle"
  BY DEF IdleTool, ToolFields

LEMMA OwnElements ==
    ASSUME NEW S, NEW s \in Seq(S)
    PROVE  s \in Seq({s[k] : k \in 1..Len(s)})
  BY SMT

LEMMA EnsureStepsTyped == EnsureSteps \in Seq(Resources)
  <1> DEFINE names == {"sg", "role", "core", "bucket_policy", "profile", "link"}
  <1>1. \A S : \A a, b, c, d, e, f \in S : <<a, b, c, d, e, f>> \in Seq(S)
    OBVIOUS
  <1>0. /\ "sg" \in names /\ "role" \in names /\ "core" \in names
        /\ "bucket_policy" \in names /\ "profile" \in names /\ "link" \in names
    OBVIOUS
  <1> HIDE DEF names
  <1>2. EnsureSteps \in Seq(names)
    BY <1>0, <1>1 DEF EnsureSteps
  <1> QED
    BY <1>2, OwnElements, Zenon DEF Resources

(* A step that leaves instances and resources alone and does not begin a   *)
(* create: all that manage_sync_server.py and the VM itself do.            *)
LEMMA QuietHolds ==
    ASSUME FleetInv, UNCHANGED <<inst, infra>>,
           DOMAIN tool' = ToolFields, tool'.pc # "ensure"
    PROVE  FleetInv'
  BY DEF FleetInv, InstOK, Ensuring, Unique, LaunchedComplete, Live

LEMMA SameHolds ==
    ASSUME FleetInv, UNCHANGED infraVars
    PROVE  FleetInv'
  BY DEF FleetInv, InstOK, Ensuring, Unique, LaunchedComplete, Live, infraVars

(* A step that changes the state of one live instance, and its state only. *)
LEMMA VmChangesHolds ==
    ASSUME FleetInv, NEW v \in Live, NEW s \in {"gone"} \cup LiveStates,
           inst' = [inst EXCEPT ![v].st = s], UNCHANGED infra,
           DOMAIN tool' = ToolFields, tool'.pc = tool.pc \/ tool'.pc # "ensure"
    PROVE  FleetInv'
  <1>1. v \in Vms /\ tool.pc # "ensure" /\ tool'.pc # "ensure"
    BY DEF FleetInv, Ensuring, Live
  <1>2. inst' = [inst EXCEPT ![v] = [inst[v] EXCEPT !.st = s]]
    BY <1>1
  <1>3. /\ inst[v] \in [st : {"none", "gone"} \cup LiveStates,
                        arch : Arches \cup {"none"}, complete : BOOLEAN]
        /\ \A w \in Vms \ {v} : inst'[w] = inst[w]
        /\ inst'[v] = [inst[v] EXCEPT !.st = s]
    BY <1>1, <1>2 DEF FleetInv, InstOK
  <1>4. /\ inst'[v] \in [st : {"none", "gone"} \cup LiveStates,
                         arch : Arches \cup {"none"}, complete : BOOLEAN]
        /\ inst'[v].complete = inst[v].complete
    BY <1>3
  <1>5. InstOK'
    BY <1>1, <1>2, <1>4 DEF FleetInv, InstOK
  <1>6. Live' \subseteq Live
    BY <1>1, <1>3 DEF Live
  <1>7. Unique' /\ LaunchedComplete'
    BY <1>1, <1>3, <1>4, <1>6 DEF FleetInv, Unique, LaunchedComplete, Live
  <1> QED
    BY <1>1, <1>5, <1>7 DEF FleetInv, Ensuring

LEMMA CreateBeginsHolds ==
    ASSUME FleetInv, NEW a \in Arches, CreateBegins(a)
    PROVE  FleetInv'
  <1>1. /\ DOMAIN tool' = ToolFields /\ tool'.arg = a /\ tool'.todo = EnsureSteps
        /\ Live' = {} /\ UNCHANGED <<inst, infra>>
    BY DEF CreateBegins, ToolFields, Live
  <1>2. \A r \in Resources : \E j \in 1..Len(EnsureSteps) : EnsureSteps[j] = r
    BY DEF Resources
  <1>3. Ensuring'
    BY <1>1, <1>2, EnsureStepsTyped DEF Ensuring
  <1> QED
    BY <1>1, <1>3 DEF FleetInv, InstOK, Unique, LaunchedComplete

LEMMA EnsureInfraHolds ==
    ASSUME FleetInv, EnsureInfra
    PROVE  FleetInv'
  <1>1. /\ tool.pc = "ensure" /\ tool.todo # <<>> /\ tool.todo \in Seq(Resources)
        /\ Live = {} /\ tool.arg \in Arches
        /\ infra' = infra \cup {Head(tool.todo)} /\ inst' = inst
    BY DEF EnsureInfra, FleetInv, Ensuring
  <1>2. /\ DOMAIN tool' = ToolFields /\ tool'.pc = "ensure" /\ tool'.arg = tool.arg
        /\ tool'.todo = Tail(tool.todo)
    BY <1>1 DEF EnsureInfra, FleetInv, ToolFields
  <1>3. Live' = {} /\ InstOK' /\ LaunchedComplete' /\ Unique'
    BY <1>1 DEF Live, FleetInv, InstOK, LaunchedComplete, Unique
  <1>4. Head(tool.todo) = tool.todo[1] /\ Head(tool.todo) \in Resources
    BY <1>1
  <1>5. /\ Tail(tool.todo) \in Seq(Resources)
        /\ \A j \in 2..Len(tool.todo) :
              j - 1 \in 1..Len(Tail(tool.todo)) /\ Tail(tool.todo)[j - 1] = tool.todo[j]
    BY <1>1
  <1>6. ASSUME NEW r \in Resources
        PROVE  r \in infra' \/ \E j \in 1..Len(tool'.todo) : tool'.todo[j] = r
    <2>1. CASE r \in infra
      BY <1>1, <2>1
    <2>2. CASE r \notin infra
      <3>1. PICK j \in 1..Len(tool.todo) : tool.todo[j] = r
        BY <1>1, <2>2 DEF FleetInv, Ensuring
      <3>2. CASE j = 1
        BY <1>1, <1>4, <3>1, <3>2
      <3>3. CASE j # 1
        <4>1. j \in 2..Len(tool.todo)
          BY <1>1, <3>1, <3>3
        <4> QED
          BY <1>2, <1>5, <3>1, <4>1
      <3> QED
        BY <3>2, <3>3
    <2> QED
      BY <2>1, <2>2
  <1>7. Ensuring'
    BY <1>1, <1>2, <1>3, <1>5, <1>6 DEF Ensuring
  <1> QED
    BY <1>1, <1>2, <1>3, <1>4, <1>7 DEF FleetInv

(* The launch: there was no instance, and nothing was left to make sure of. *)
LEMMA RunInstancesHolds ==
    ASSUME FleetInv, NEW v \in Vms, RunInstances(v)
    PROVE  FleetInv'
  <1>1. /\ tool.pc = "ensure" /\ tool.todo = <<>> /\ Live = {} /\ tool.arg \in Arches
        /\ infra' = infra
        /\ inst' = [inst EXCEPT ![v] = [st |-> "pending", arch |-> tool.arg,
                                        complete |-> infra = Resources]]
    BY DEF RunInstances, FleetInv, Ensuring
  <1>2. DOMAIN tool' = ToolFields /\ tool'.pc = "save"
    BY DEF RunInstances, FleetInv, ToolFields
  <1>3. infra = Resources
    <2>1. \A r \in Resources : r \in infra
      BY <1>1 DEF FleetInv, Ensuring
    <2> QED
      BY <2>1 DEF FleetInv
  <1>4. /\ inst'[v] = [st |-> "pending", arch |-> tool.arg, complete |-> TRUE]
        /\ \A w \in Vms \ {v} : inst'[w] = inst[w]
    BY <1>1, <1>3 DEF FleetInv, InstOK
  <1>5. InstOK'
    <2>1. [st |-> "pending", arch |-> tool.arg, complete |-> infra = Resources]
             \in [st : {"none", "gone"} \cup LiveStates,
                  arch : Arches \cup {"none"}, complete : BOOLEAN]
      BY <1>1 DEF LiveStates
    <2> QED
      BY <1>1, <2>1 DEF FleetInv, InstOK
  <1>6. Live' \subseteq {v}
    BY <1>1, <1>4 DEF Live
  <1>7. Unique' /\ LaunchedComplete'
    BY <1>4, <1>6 DEF Unique, LaunchedComplete
  <1> QED
    BY <1>1, <1>2, <1>5, <1>7 DEF FleetInv, Ensuring

LEMMA PurgeInfraHolds ==
    ASSUME FleetInv, PurgeInfra
    PROVE  FleetInv'
  <1>1. infra' \subseteq infra /\ inst' = inst /\ tool.pc = "purge"
    BY DEF PurgeInfra
  <1>2. DOMAIN tool' = ToolFields /\ tool'.pc # "ensure"
    BY <1>1, IdleToolFields DEF PurgeInfra, FleetInv, ToolFields
  <1> QED
    BY <1>1, <1>2 DEF FleetInv, InstOK, Ensuring, Unique, LaunchedComplete, Live

LEMMA ManageVmHolds ==
    ASSUME FleetInv, ManageVm
    PROVE  FleetInv'
  <1>1. ASSUME NEW a \in Arches, CreateFindsVm(a) PROVE FleetInv'
    BY <1>1, QuietHolds DEF CreateFindsVm, FleetInv
  <1>2. ASSUME NEW v \in Vms, SaveState(v) PROVE FleetInv'
    BY <1>2, QuietHolds, IdleToolFields DEF SaveState
  <1>3. ASSUME NEW v \in Vms, Booted(v) PROVE FleetInv'
    <2>1. v \in Live
      BY <1>3 DEF Booted, Live, LiveStates
    <2> QED
      BY <1>3, <2>1, VmChangesHolds DEF Booted, LiveStates, FleetInv
  <1>4. ASSUME NEW v \in Vms, StartVm(v) PROVE FleetInv'
    <2>1. v \in Live
      BY <1>4 DEF StartVm, Resolved
    <2> QED
      BY <1>4, <2>1, VmChangesHolds DEF StartVm, LiveStates, FleetInv
  <1>5. ASSUME NEW v \in Vms, StopVm(v) PROVE FleetInv'
    <2>1. v \in Live
      BY <1>5 DEF StopVm, Resolved
    <2> QED
      BY <1>5, <2>1, VmChangesHolds DEF StopVm, LiveStates, FleetInv
  <1>6. ASSUME NEW v \in Vms, RebootVm(v) PROVE FleetInv'
    BY <1>6, SameHolds DEF RebootVm
  <1>7. ASSUME NEW v \in Vms, NEW purge \in BOOLEAN, TerminateVm(v, purge) PROVE FleetInv'
    <2>1. v \in Live /\ inst' = [inst EXCEPT ![v].st = "gone"] /\ infra' = infra
      BY <1>7 DEF TerminateVm, Resolved
    <2>2. DOMAIN tool' = ToolFields /\ tool'.pc # "ensure"
      BY <1>7 DEF TerminateVm, FleetInv, IdleTool, ToolFields
    <2> QED
      BY <2>1, <2>2, VmChangesHolds
  <1> QED
    BY <1>1, <1>2, <1>3, <1>4, <1>5, <1>6, <1>7, CreateBeginsHolds, EnsureInfraHolds,
       RunInstancesHolds, PurgeInfraHolds DEF ManageVm

LEMMA ManageServerHolds ==
    ASSUME FleetInv, ManageServer
    PROVE  FleetInv'
  <1>1. ASSUME NEW cmd \in Commands, NEW arg \in Args(cmd), RemoteBegins(cmd, arg)
        PROVE  FleetInv'
    <2>1. DOMAIN tool' = ToolFields /\ tool'.pc = "online" /\ UNCHANGED <<inst, infra>>
      BY <1>1 DEF RemoteBegins, IdleTool, ToolFields
    <2> QED
      BY <2>1, QuietHolds
  <1>2. CASE SendCommand
    <2>1. DOMAIN tool' = ToolFields /\ tool'.pc = "wait" /\ UNCHANGED <<inst, infra>>
      BY <1>2 DEF SendCommand, FleetInv, ToolFields
    <2> QED
      BY <2>1, QuietHolds
  <1>3. CASE AgentOffline
    BY <1>3, QuietHolds, IdleToolFields DEF AgentOffline
  <1>4. CASE RemoteFails
    BY <1>4, QuietHolds, IdleToolFields DEF RemoteFails
  <1>5. ASSUME NEW k \in 1..Len(scripts), RemoteSucceeds(k) PROVE FleetInv'
    <2>1. DOMAIN tool' = ToolFields /\ tool'.pc # "ensure" /\ UNCHANGED <<inst, infra>>
      BY <1>5, IdleToolFields DEF RemoteSucceeds, FleetInv, ToolFields
    <2> QED
      BY <2>1, QuietHolds
  <1> QED
    BY <1>1, <1>2, <1>3, <1>4, <1>5 DEF ManageServer

LEMMA ScriptFailsHolds ==
    ASSUME FleetInv, NEW k, ScriptFails(k)
    PROVE  FleetInv'
  BY SameHolds DEF ScriptFails

LEMMA InitHolds == Init => FleetInv
  <1> SUFFICES ASSUME Init PROVE FleetInv
    OBVIOUS
  <1>1. Live = {}
    BY DEF Init, InfraInit, Live, LiveStates
  <1>2. InstOK
    BY DEF Init, InfraInit, InstOK
  <1> QED
    BY <1>1, <1>2, IdleToolFields
    DEF Init, InfraInit, FleetInv, Ensuring, Unique, LaunchedComplete

LEMMA StepHolds == FleetInv /\ [Next]_vars => FleetInv'
  <1> SUFFICES ASSUME FleetInv, [Next]_vars PROVE FleetInv'
    OBVIOUS
  <1>1. CASE VmRuns
    <2>1. CASE RestartOnFailure
      BY <2>1, SameHolds DEF RestartOnFailure
    <2>2. ASSUME NEW k \in 1..Len(scripts), ScriptLine(k) PROVE FleetInv'
      BY <2>2, SameHolds DEF ScriptLine
    <2>3. ASSUME NEW k \in 1..Len(scripts), LineCannot(k) PROVE FleetInv'
      BY <2>3, ScriptFailsHolds DEF LineCannot
    <2> QED
      BY <1>1, <2>1, <2>2, <2>3 DEF VmRuns
  <1>2. CASE Fault
    <2>1. CASE ToolDies
      BY <2>1, QuietHolds, IdleToolFields DEF ToolDies
    <2>2. ASSUME NEW k \in 1..Len(scripts), ScriptFails(k) PROVE FleetInv'
      BY <2>2, ScriptFailsHolds
    <2>3. CASE UNCHANGED infraVars
      BY <2>3, SameHolds
    <2> QED
      BY <1>2, <2>1, <2>2, <2>3 DEF Fault
  <1>3. CASE UNCHANGED vars
    BY <1>3, SameHolds DEF vars
  <1> QED
    BY <1>1, <1>2, <1>3, ManageVmHolds, ManageServerHolds DEF Next

(***************************************************************************)
(* The invariant holds from the first state on, through every command of   *)
(* manage_vm.py, finished or not, and through all that runs beside it.     *)
(***************************************************************************)
THEOREM Invariance == Spec => []FleetInv
  BY InitHolds, StepHolds, PTL DEF Spec

(***************************************************************************)
(* There is never a second VM (manage_vm.py, cmd_create): a command that   *)
(* dies at any point leaves nothing behind that a later create would miss. *)
(***************************************************************************)
THEOREM OneVmHolds == Spec => []OneVm
  <1>1. FleetInv => OneVm
    <2> SUFFICES ASSUME FleetInv PROVE Cardinality(Live) <= 1
      BY DEF OneVm
    <2>1. CASE Live = {}
      BY <2>1, FS_EmptySet
    <2>2. CASE Live # {}
      <3>1. PICK v : v \in Live
        BY <2>2
      <3>2. Live = {v}
        BY <3>1 DEF FleetInv, Unique
      <3> QED
        BY <3>2, FS_Singleton
    <2> QED
      BY <2>1, <2>2
  <1> QED
    BY <1>1, Invariance, PTL

(***************************************************************************)
(* Every VM is launched with its security group and its complete profile,  *)
(* whatever an earlier create or purge left half done (_ensure_iam).       *)
(***************************************************************************)
THEOREM LaunchedCompleteHolds == Spec => []LaunchedComplete
  <1>1. FleetInv => LaunchedComplete
    BY DEF FleetInv
  <1> QED
    BY <1>1, Invariance, PTL

(***************************************************************************)
(* The scripts on the VM.                                                  *)
(***************************************************************************)
ScriptLines == {"user", "dirs", "own_data", "unit", "tls", "own_etc", "enable",
                "rclone", "mountpoint", "conf", "drive_unit", "own_conf", "mount",
                "lib", "timer_unit", "timer", "fetch", "install", "unlink", "restart",
                "insert", "delete", "own_db", "start", "stop"}

ScriptArgs == {None} \cup Binaries \cup (Machines \X Certs)

Running == [cmd : AllCommands, arg : ScriptArgs, left : Seq(ScriptLines),
            watched : BOOLEAN, failed : BOOLEAN]
Server == [installed : Binaries \cup {None}, up : BOOLEAN, running : Binaries \cup {None}]
Acked == [binary : Binaries \cup {Unknown}, cert : [Machines -> Certs \cup {None, Unknown}],
          deploys : BOOLEAN, lists : [Machines -> BOOLEAN]]

(* The lines of a script that have run.                                    *)
Ran(s) == Len(Script(s.cmd)) - Len(s.left)

ArgFits(cmd, arg) ==
    /\ cmd = "deploy" => arg \in Binaries
    /\ cmd = "provision" => arg \in Binaries \cup {None}
    /\ cmd \in {"enroll", "revoke"} => arg \in Machines \X Certs

LEMMA ScriptTable ==
    /\ Script("provision") = <<"user", "dirs", "own_data", "unit", "tls", "own_etc", "enable">>
    /\ Script("provision_drive") = <<"rclone", "mountpoint", "conf", "drive_unit", "own_conf", "mount">>
    /\ Script("provision_sealer") = <<"lib", "timer_unit", "timer">>
    /\ Script("deploy") = <<"fetch", "install", "unlink", "restart">>
    /\ Script("enroll") = <<"insert", "own_db">>
    /\ Script("revoke") = <<"delete", "own_db">>
    /\ Script("start") = <<"start">>
    /\ Script("stop") = <<"stop">>
    /\ Script("restart") = <<"restart">>
  BY DEF Script, ProvisionScript, DriveScript, SealerScript, DeployScript, EnrollScript

LEMMA ScriptTyped ==
    ASSUME NEW c \in AllCommands
    PROVE  Script(c) \in Seq(ScriptLines) /\ Len(Script(c)) \in Nat
  <1>1. \A S : /\ \A a \in S : <<a>> \in Seq(S)
               /\ \A a, b \in S : <<a, b>> \in Seq(S)
               /\ \A a, b, d \in S : <<a, b, d>> \in Seq(S)
               /\ \A a, b, d, e \in S : <<a, b, d, e>> \in Seq(S)
    OBVIOUS
  <1>2. \A S : \A a, b, d, e, f, g \in S : <<a, b, d, e, f, g>> \in Seq(S)
    OBVIOUS
  <1>3. \A S : \A a, b, d, e, f, g, h \in S : <<a, b, d, e, f, g, h>> \in Seq(S)
    OBVIOUS
  <1>4. <<"user", "dirs", "own_data", "unit", "tls", "own_etc", "enable">> \in Seq(ScriptLines)
    <2>1. /\ "user" \in ScriptLines /\ "dirs" \in ScriptLines /\ "own_data" \in ScriptLines
          /\ "unit" \in ScriptLines /\ "tls" \in ScriptLines /\ "own_etc" \in ScriptLines
          /\ "enable" \in ScriptLines
      BY DEF ScriptLines
    <2> QED
      BY <1>3, <2>1, Zenon
  <1>5. <<"rclone", "mountpoint", "conf", "drive_unit", "own_conf", "mount">> \in Seq(ScriptLines)
    <2>1. /\ "rclone" \in ScriptLines /\ "mountpoint" \in ScriptLines /\ "conf" \in ScriptLines
          /\ "drive_unit" \in ScriptLines /\ "own_conf" \in ScriptLines
          /\ "mount" \in ScriptLines
      BY DEF ScriptLines
    <2> QED
      BY <1>2, <2>1, Zenon
  <1>6. /\ <<"lib", "timer_unit", "timer">> \in Seq(ScriptLines)
        /\ <<"fetch", "install", "unlink", "restart">> \in Seq(ScriptLines)
        /\ <<"insert", "own_db">> \in Seq(ScriptLines)
        /\ <<"delete", "own_db">> \in Seq(ScriptLines)
        /\ <<"start">> \in Seq(ScriptLines) /\ <<"stop">> \in Seq(ScriptLines)
        /\ <<"restart">> \in Seq(ScriptLines)
    <2>1. /\ "lib" \in ScriptLines /\ "timer_unit" \in ScriptLines /\ "timer" \in ScriptLines
          /\ "fetch" \in ScriptLines /\ "install" \in ScriptLines
          /\ "unlink" \in ScriptLines /\ "restart" \in ScriptLines
          /\ "insert" \in ScriptLines /\ "delete" \in ScriptLines
          /\ "own_db" \in ScriptLines /\ "start" \in ScriptLines /\ "stop" \in ScriptLines
      BY DEF ScriptLines
    <2> QED
      BY <1>1, <2>1, Zenon
  <1>7. Script(c) \in Seq(ScriptLines)
    BY <1>4, <1>5, <1>6, ScriptTable, Zenon DEF AllCommands
  <1> QED
    BY <1>7, LenProperties

(* Where a line that others depend on stands.                              *)
LEMMA LinePlaces ==
    ASSUME NEW c \in AllCommands, NEW n \in 1..Len(Script(c))
    PROVE  /\ Script(c)[n] = "enable" => c = "provision" /\ n = 7
           /\ Script(c)[n] = "mount" => c = "provision_drive" /\ n = 6
           /\ Script(c)[n] = "timer" => c = "provision_sealer" /\ n = 3
           /\ Script(c)[n] = "fetch" <=> c = "deploy" /\ n = 1
           /\ Script(c)[n] = "install" <=> c = "deploy" /\ n = 2
           /\ Script(c)[n] = "unlink" <=> c = "deploy" /\ n = 3
           /\ c = "deploy" /\ n = 4 => Script(c)[n] = "restart"
           /\ Script(c)[n] = "insert" <=> c = "enroll" /\ n = 1
           /\ Script(c)[n] = "delete" <=> c = "revoke" /\ n = 1
  <1>1. CASE c = "provision"
    <2>1. /\ Len(Script(c)) = 7
          /\ Script(c)[1] = "user" /\ Script(c)[2] = "dirs" /\ Script(c)[3] = "own_data"
          /\ Script(c)[4] = "unit" /\ Script(c)[5] = "tls" /\ Script(c)[6] = "own_etc"
          /\ Script(c)[7] = "enable"
      BY <1>1, ScriptTable
    <2> QED
      BY <1>1, <2>1
  <1>2. CASE c = "provision_drive"
    <2>1. /\ Len(Script(c)) = 6 /\ Script(c)[1] = "rclone"
          /\ Script(c)[2] = "mountpoint" /\ Script(c)[3] = "conf" /\ Script(c)[4] = "drive_unit"
          /\ Script(c)[5] = "own_conf" /\ Script(c)[6] = "mount"
      BY <1>2, ScriptTable
    <2> QED
      BY <1>2, <2>1
  <1>3. CASE c = "provision_sealer"
    <2>1. /\ Len(Script(c)) = 3
          /\ Script(c)[1] = "lib" /\ Script(c)[2] = "timer_unit" /\ Script(c)[3] = "timer"
      BY <1>3, ScriptTable
    <2> QED
      BY <1>3, <2>1
  <1>4. CASE c = "deploy"
    <2>1. /\ Len(Script(c)) = 4
          /\ Script(c)[1] = "fetch" /\ Script(c)[2] = "install" /\ Script(c)[3] = "unlink"
          /\ Script(c)[4] = "restart"
      BY <1>4, ScriptTable
    <2> QED
      BY <1>4, <2>1
  <1>5. CASE c = "enroll"
    <2>1. /\ Len(Script(c)) = 2
          /\ Script(c)[1] = "insert" /\ Script(c)[2] = "own_db"
      BY <1>5, ScriptTable
    <2> QED
      BY <1>5, <2>1
  <1>6. CASE c = "revoke"
    <2>1. /\ Len(Script(c)) = 2
          /\ Script(c)[1] = "delete" /\ Script(c)[2] = "own_db"
      BY <1>6, ScriptTable
    <2> QED
      BY <1>6, <2>1
  <1>7. CASE c = "start"
    <2>1. /\ Len(Script(c)) = 1
          /\ Script(c)[1] = "start"
      BY <1>7, ScriptTable
    <2> QED
      BY <1>7, <2>1
  <1>8. CASE c = "stop"
    <2>1. /\ Len(Script(c)) = 1
          /\ Script(c)[1] = "stop"
      BY <1>8, ScriptTable
    <2> QED
      BY <1>8, <2>1
  <1>9. CASE c = "restart"
    <2>1. /\ Len(Script(c)) = 1
          /\ Script(c)[1] = "restart"
      BY <1>9, ScriptTable
    <2> QED
      BY <1>9, <2>1
  <1> QED
    BY <1>1, <1>2, <1>3, <1>4, <1>5, <1>6, <1>7, <1>8, <1>9 DEF AllCommands

LEMMA WithoutEffect ==
    ASSUME NEW S, NEW s \in Seq(S), NEW k \in 1..Len(s)
    PROVE  /\ Without(s, k) \in Seq(S) /\ Len(Without(s, k)) = Len(s) - 1
           /\ \A j \in 1..Len(Without(s, k)) :
                 Without(s, k)[j] = s[IF j < k THEN j ELSE j + 1]
  <1> DEFINE a == SubSeq(s, 1, k - 1)
             b == SubSeq(s, k + 1, Len(s))
  <1>1. Len(s) \in Nat /\ \A j \in 1..Len(s) : s[j] \in S
    BY LenProperties, ElementOfSeq
  <1>2. /\ a \in Seq(S) /\ Len(a) = k - 1
        /\ \A j \in 1..(k - 1) : a[j] = s[j]
    BY <1>1
  <1>3. /\ b \in Seq(S) /\ Len(b) = Len(s) - k
        /\ \A j \in 1..(Len(s) - k) : b[j] = s[k + j]
    BY <1>1
  <1> HIDE DEF a, b
  <1>4. /\ a \o b \in Seq(S) /\ Len(a \o b) = Len(s) - 1
        /\ \A j \in 1..(Len(s) - 1) : (a \o b)[j] = IF j <= k - 1 THEN a[j] ELSE b[j - (k - 1)]
    BY <1>1, <1>2, <1>3, ConcatProperties
  <1>5. \A j \in 1..(Len(s) - 1) : (a \o b)[j] = s[IF j < k THEN j ELSE j + 1]
    BY <1>1, <1>2, <1>3, <1>4
  <1> QED
    BY <1>4, <1>5 DEF Without, a, b

(* A script holds the rest of its lines; the others have run, unless one   *)
(* of them failed.                                                         *)
ScriptTrue(s, d) ==
    /\ ArgFits(s.cmd, s.arg)
    /\ Len(s.left) <= Len(Script(s.cmd))
    /\ \A j \in 1..Len(s.left) : s.left[j] = Script(s.cmd)[Ran(s) + j]
    /\ s.failed => s.left = <<>>
    /\ ~s.failed => \A j \in 1..Ran(s) : Script(s.cmd)[j] \in Steps => Script(s.cmd)[j] \in d

ServerOK ==
    /\ disk \subseteq Steps
    /\ tmp \in Binaries \cup {None}
    /\ srv \in Server
    /\ enrolled \in [Machines -> Certs \cup {None}]
    /\ scripts \in Seq(Running)
    /\ acked \in Acked

(* What a line needed stays there; nothing runs without a VM.              *)
ScriptsInv ==
    /\ \A k \in 1..Len(scripts) : ScriptTrue(scripts[k], disk)
    /\ \A f \in disk : Needs(f) \subseteq disk
    /\ scripts # <<>> \/ srv.up => Live # {}
    /\ srv.running # None => srv.up

(* The command in hand, and the script it waits for.                       *)
ToolTrue ==
    /\ tool.pc \in {"idle", "ensure", "save", "purge", "online", "wait"}
    /\ tool.pc = "idle" => tool = IdleTool
    /\ tool.pc \in {"ensure", "save", "purge"} => tool.cmd \in {"none", "create"}
    /\ tool.pc \in {"online", "wait"} =>
          tool.cmd \in AllCommands /\ tool.arg \in ScriptArgs /\ ArgFits(tool.cmd, tool.arg)

WatchTrue ==
    /\ tool.pc # "wait" => Watched = {}
    /\ \A j, k \in Watched : j = k
    /\ \A k \in Watched : scripts[k].cmd = tool.cmd /\ scripts[k].arg = tool.arg

ServerInv == ServerOK /\ ScriptsInv /\ ToolTrue /\ WatchTrue

LEMMA ArgsFit ==
    ASSUME NEW cmd \in AllCommands, NEW arg \in Args(cmd)
    PROVE  arg \in ScriptArgs /\ ArgFits(cmd, arg)
  <1>1. CASE cmd = "deploy"
    BY <1>1 DEF Args, ScriptArgs, ArgFits
  <1>2. CASE cmd = "provision"
    BY <1>2 DEF Args, ScriptArgs, ArgFits
  <1>3. CASE cmd \in {"enroll", "revoke"}
    BY <1>3 DEF Args, ScriptArgs, ArgFits
  <1>4. CASE cmd \notin {"deploy", "provision", "enroll", "revoke"}
    BY <1>4 DEF Args, ScriptArgs, ArgFits
  <1> QED
    BY <1>1, <1>2, <1>3, <1>4

LEMMA IdleIsTrue == ASSUME tool' = IdleTool PROVE ToolTrue' /\ tool'.pc = "idle"
  BY DEF ToolTrue, IdleTool

LEMMA StartedEffect ==
    ASSUME NEW x \in Server
    PROVE  /\ Started(x) \in Server /\ Started(x).up /\ Started(x).installed = x.installed
           /\ Started(x).running \in {None, x.installed}
  BY DEF Started, Server

(* The instances that matter to the server.                                *)
LEMMA LiveMoves ==
    ASSUME FleetInv, [Next]_vars
    PROVE  \/ Live' = Live
           \/ scripts' = <<>> /\ srv' = [srv EXCEPT !.up = FALSE, !.running = None]
           \/ scripts' = <<>> /\ srv' = FreshServer
  <1>1. CASE inst' = inst
    BY <1>1 DEF Live
  <1>2. ASSUME NEW v \in Vms, NEW x \in LiveStates, inst[v].st \in LiveStates,
               inst' = [inst EXCEPT ![v].st = x]
        PROVE  Live' = Live
    <2>1. \A w \in Vms : inst'[w].st \in LiveStates <=> inst[w].st \in LiveStates
      BY <1>2 DEF FleetInv, InstOK
    <2> QED
      BY <2>1 DEF Live
  <1>3. ASSUME NEW v \in Vms, Booted(v) \/ StartVm(v) \/ StopVm(v) PROVE Live' = Live
    BY <1>2, <1>3 DEF Booted, StartVm, StopVm, LiveStates
  <1>4. ASSUME NEW v \in Vms, RunInstances(v), FreshDisk
        PROVE  scripts' = <<>> /\ srv' = FreshServer
    BY <1>4 DEF FreshDisk
  <1>5. ASSUME PowerOff
        PROVE  scripts' = <<>> /\ srv' = [srv EXCEPT !.up = FALSE, !.running = None]
    BY <1>5 DEF PowerOff
  <1>6. CASE ManageVm
    <2>1. ASSUME NEW a \in Arches, CreateBegins(a) \/ CreateFindsVm(a) PROVE inst' = inst
      BY <2>1 DEF CreateBegins, CreateFindsVm
    <2>2. ASSUME EnsureInfra \/ PurgeInfra PROVE inst' = inst
      BY <2>2 DEF EnsureInfra, PurgeInfra
    <2>3. ASSUME NEW v \in Vms, SaveState(v) \/ RebootVm(v) PROVE inst' = inst
      BY <2>3 DEF SaveState, RebootVm, infraVars
    <2> QED
      BY <1>1, <1>3, <1>4, <1>5, <1>6, <2>1, <2>2, <2>3 DEF ManageVm
  <1>7. CASE ManageServer
    BY <1>1, <1>7 DEF ManageServer, RemoteBegins, SendCommand, AgentOffline, RemoteFails,
                      RemoteSucceeds
  <1>8. CASE VmRuns
    BY <1>1, <1>8 DEF VmRuns, RestartOnFailure, ScriptLine, LineCannot, ScriptFails, infraVars
  <1>9. CASE Fault
    BY <1>1, <1>9 DEF Fault, ToolDies, ScriptFails, infraVars
  <1> QED
    BY <1>1, <1>6, <1>7, <1>8, <1>9 DEF Next, vars, infraVars

(* The server goes down, boots or is a new one.                            *)
LEMMA PowerHolds ==
    ASSUME ServerInv, scripts' = <<>>, tmp' = None, disk' \in {disk, {}}, srv' \in Server,
           srv'.running # None => srv'.up, srv'.up => Live' # {},
           enrolled' \in [Machines -> Certs \cup {None}], acked' \in Acked, ToolTrue'
    PROVE  ServerInv'
  <1>1. Len(scripts') = 0 /\ Watched' = {} /\ scripts' \in Seq(Running)
    BY DEF Watched
  <1>2. ServerOK'
    BY <1>1 DEF ServerInv, ServerOK
  <1>3. ScriptsInv'
    BY <1>1 DEF ServerInv, ScriptsInv
  <1>4. WatchTrue'
    BY <1>1 DEF WatchTrue
  <1> QED
    BY <1>2, <1>3, <1>4 DEF ServerInv

LEMMA BootHolds ==
    ASSUME ServerInv, Boot, ToolTrue', Live' # {}
    PROVE  ServerInv'
  <1>1. srv' \in Server /\ (srv'.running # None => srv'.up)
    BY StartedEffect DEF ServerInv, ServerOK, Boot, Server
  <1> QED
    BY <1>1, PowerHolds DEF Boot, ServerInv, ServerOK

LEMMA PowerOffHolds ==
    ASSUME ServerInv, PowerOff, ToolTrue'
    PROVE  ServerInv'
  <1>1. srv' \in Server /\ ~srv'.up /\ srv'.running = None
    BY DEF ServerInv, ServerOK, PowerOff, Server
  <1> QED
    BY <1>1, PowerHolds DEF PowerOff, ServerInv, ServerOK

LEMMA FreshDiskHolds ==
    ASSUME ServerInv, FreshDisk, ToolTrue'
    PROVE  ServerInv'
  <1>1. /\ srv' \in Server /\ ~srv'.up /\ srv'.running = None
        /\ acked' \in Acked /\ enrolled' \in [Machines -> Certs \cup {None}]
    BY DEF FreshDisk, FreshServer, Server, NothingAcked, Acked
  <1> QED
    BY <1>1, PowerHolds DEF FreshDisk

(* The server is left alone.                                               *)
LEMMA SameServerHolds ==
    ASSUME ServerInv, UNCHANGED vmVars, Live' = Live, ToolTrue',
           tool.pc # "wait" \/ (tool'.pc = tool.pc /\ tool'.cmd = tool.cmd /\ tool'.arg = tool.arg)
    PROVE  ServerInv'
  <1>1. ServerOK' /\ ScriptsInv'
    BY DEF ServerInv, ServerOK, ScriptsInv, vmVars
  <1>2. Watched' = Watched
    BY DEF Watched, vmVars
  <1>3. WatchTrue'
    BY <1>2 DEF ServerInv, WatchTrue, vmVars
  <1> QED
    BY <1>1, <1>3 DEF ServerInv

(***************************************************************************)
(* The steps of the scripts and of the commands that wait for them.        *)
(***************************************************************************)
LEMMA ScriptFacts ==
    ASSUME ServerInv, NEW k \in 1..Len(scripts)
    PROVE  /\ scripts[k] \in Running /\ ScriptTrue(scripts[k], disk)
           /\ Script(scripts[k].cmd) \in Seq(ScriptLines)
           /\ Len(Script(scripts[k].cmd)) \in Nat /\ Len(scripts[k].left) \in Nat
           /\ Ran(scripts[k]) \in 0..Len(Script(scripts[k].cmd))
  <1>1. scripts[k] \in Running /\ ScriptTrue(scripts[k], disk)
    BY ElementOfSeq DEF ServerInv, ServerOK, ScriptsInv
  <1>2. scripts[k].cmd \in AllCommands /\ scripts[k].left \in Seq(ScriptLines)
    BY <1>1 DEF Running
  <1>3. /\ Script(scripts[k].cmd) \in Seq(ScriptLines)
        /\ Len(Script(scripts[k].cmd)) \in Nat /\ Len(scripts[k].left) \in Nat
    BY <1>2, ScriptTyped, LenProperties
  <1>4. Len(scripts[k].left) <= Len(Script(scripts[k].cmd))
    BY <1>1 DEF ScriptTrue
  <1>5. \A m, n \in Nat : n <= m => m - n \in 0..m
    OBVIOUS
  <1>6. Ran(scripts[k]) \in 0..Len(Script(scripts[k].cmd))
    BY <1>3, <1>4, <1>5, Zenon DEF Ran
  <1> QED
    BY <1>1, <1>3, <1>6

(* A script goes; whoever waited for it waits no more, or nobody did.      *)
LEMMA WithoutHolds ==
    ASSUME ServerInv, NEW k \in 1..Len(scripts), scripts' = Without(scripts, k),
           disk \subseteq disk'
    PROVE  /\ scripts' \in Seq(Running)
           /\ \A j \in 1..Len(scripts') : ScriptTrue(scripts'[j], disk')
           /\ Len(scripts') = Len(scripts) - 1
           /\ \A j \in 1..Len(scripts') :
                 /\ (IF j < k THEN j ELSE j + 1) \in 1..Len(scripts)
                 /\ (IF j < k THEN j ELSE j + 1) # k
                 /\ scripts'[j] = scripts[IF j < k THEN j ELSE j + 1]
  <1>1. scripts \in Seq(Running) /\ Len(scripts) \in Nat
    BY LenProperties DEF ServerInv, ServerOK
  <1>2. /\ scripts' \in Seq(Running) /\ Len(scripts') = Len(scripts) - 1
        /\ \A j \in 1..Len(scripts') : scripts'[j] = scripts[IF j < k THEN j ELSE j + 1]
    BY <1>1, WithoutEffect
  <1>3. \A j \in 1..Len(scripts') : /\ (IF j < k THEN j ELSE j + 1) \in 1..Len(scripts)
                                    /\ (IF j < k THEN j ELSE j + 1) # k
    BY <1>1, <1>2
  <1>4. \A i \in 1..Len(scripts) : ScriptTrue(scripts[i], disk')
    BY DEF ServerInv, ScriptsInv, ScriptTrue
  <1> QED
    BY <1>2, <1>3, <1>4

LEMMA WatchWithout ==
    ASSUME ServerInv, NEW k \in 1..Len(scripts), scripts' = Without(scripts, k),
           k \in Watched \/ (tool'.cmd = tool.cmd /\ tool'.arg = tool.arg /\ tool'.pc = tool.pc)
    PROVE  WatchTrue'
  <1>1. /\ Len(scripts') = Len(scripts) - 1
        /\ \A j \in 1..Len(scripts') :
                 /\ (IF j < k THEN j ELSE j + 1) \in 1..Len(scripts)
                 /\ (IF j < k THEN j ELSE j + 1) # k
                 /\ scripts'[j] = scripts[IF j < k THEN j ELSE j + 1]
    <2>1. scripts \in Seq(Running) /\ Len(scripts) \in Nat
      BY LenProperties DEF ServerInv, ServerOK
    <2> QED
      BY <2>1, WithoutEffect
  <1>2. Len(scripts) \in Nat
    BY LenProperties DEF ServerInv, ServerOK
  <1>3. \A j \in Watched' : /\ j \in 1..Len(scripts')
                            /\ (IF j < k THEN j ELSE j + 1) \in Watched
                            /\ (IF j < k THEN j ELSE j + 1) # k
    BY <1>1 DEF Watched
  <1>4. CASE k \in Watched
    <2>1. Watched' = {}
      BY <1>3, <1>4 DEF ServerInv, WatchTrue
    <2> QED
      BY <2>1 DEF WatchTrue
  <1>5. CASE tool'.cmd = tool.cmd /\ tool'.arg = tool.arg /\ tool'.pc = tool.pc /\ k \notin Watched
    <2>1. tool'.pc # "wait" => Watched' = {}
      BY <1>3, <1>5 DEF ServerInv, WatchTrue
    <2>2. \A i, j \in Watched' : i = j
      <3>1. \A i, j \in Watched' : (IF i < k THEN i ELSE i + 1) = (IF j < k THEN j ELSE j + 1)
        BY <1>3 DEF ServerInv, WatchTrue
      <3> QED
        BY <1>3, <3>1
    <2>3. \A j \in Watched' : scripts'[j].cmd = tool'.cmd /\ scripts'[j].arg = tool'.arg
      BY <1>1, <1>3, <1>5 DEF ServerInv, WatchTrue
    <2> QED
      BY <2>1, <2>2, <2>3 DEF WatchTrue
  <1> QED
    BY <1>4, <1>5

LEMMA SendHolds ==
    ASSUME ServerInv, SendCommand, FleetInv
    PROVE  ServerInv'
  <1> DEFINE new == [cmd |-> tool.cmd, arg |-> tool.arg, left |-> Script(tool.cmd),
                     watched |-> TRUE, failed |-> FALSE]
  <1>1. /\ tool.pc = "online" /\ tool.cmd \in AllCommands /\ tool.arg \in ScriptArgs
        /\ ArgFits(tool.cmd, tool.arg) /\ Watched = {}
    BY DEF SendCommand, ServerInv, ToolTrue, WatchTrue
  <1>2. Script(tool.cmd) \in Seq(ScriptLines) /\ Len(Script(tool.cmd)) \in Nat
    BY <1>1, ScriptTyped
  <1>3. new \in Running
    BY <1>1, <1>2 DEF Running
  <1>4. ScriptTrue(new, disk)
    BY <1>1, <1>2 DEF ScriptTrue, Ran
  <1>5. scripts' = Append(scripts, new)
    BY DEF SendCommand
  <1>6. new.watched /\ new.cmd = tool.cmd /\ new.arg = tool.arg
    OBVIOUS
  <1> HIDE DEF new
  <1>7. scripts \in Seq(Running) /\ Len(scripts) \in Nat
    BY LenProperties DEF ServerInv, ServerOK
  <1>8. /\ scripts' \in Seq(Running) /\ Len(scripts') = Len(scripts) + 1
        /\ \A k \in 1..Len(scripts) : scripts'[k] = scripts[k]
        /\ scripts'[Len(scripts) + 1] = new
    BY <1>3, <1>5, <1>7, AppendProperties
  <1>9. acked' \in Acked
    BY <1>1 DEF SendCommand, Forget, ServerInv, ServerOK, Acked
  <1>10. ServerOK'
    BY <1>8, <1>9 DEF SendCommand, ServerInv, ServerOK
  <1>11. Live # {} /\ Live' = Live
    BY DEF SendCommand, Online, Resolved, Live
  <1>12. ScriptsInv'
    <2>1. disk' = disk /\ srv' = srv
      BY DEF SendCommand
    <2>2. \A k \in 1..Len(scripts') : ScriptTrue(scripts'[k], disk')
      <3>1. \A k \in 1..Len(scripts') : k \in 1..Len(scripts) \/ k = Len(scripts) + 1
        BY <1>7, <1>8
      <3> QED
        BY <1>4, <1>8, <2>1, <3>1 DEF ServerInv, ScriptsInv
    <2> QED
      BY <1>11, <2>1, <2>2 DEF ServerInv, ScriptsInv
  <1>13. /\ tool'.pc = "wait" /\ tool'.cmd = tool.cmd /\ tool'.arg = tool.arg
    BY DEF SendCommand, FleetInv, ToolFields
  <1>14. ToolTrue'
    BY <1>1, <1>13 DEF ToolTrue
  <1>15. Watched' = {Len(scripts) + 1}
    <2>1. \A k \in 1..Len(scripts) : ~scripts[k].watched
      BY <1>1 DEF Watched
    <2>2. \A k : k \in 1..Len(scripts') <=> k \in 1..Len(scripts) \/ k = Len(scripts) + 1
      BY <1>7, <1>8
    <2> QED
      BY <1>6, <1>8, <2>1, <2>2 DEF Watched
  <1>16. WatchTrue'
    BY <1>6, <1>8, <1>13, <1>15 DEF WatchTrue
  <1> QED
    BY <1>10, <1>12, <1>14, <1>16 DEF ServerInv

LEMMA SucceedsHolds ==
    ASSUME ServerInv, FleetInv, NEW k \in 1..Len(scripts), RemoteSucceeds(k)
    PROVE  ServerInv'
  <1> DEFINE x == scripts[k]
  <1>1. /\ x \in Running /\ ArgFits(x.cmd, x.arg) /\ k \in Watched
        /\ x.cmd = tool.cmd /\ x.arg = tool.arg
    BY ScriptFacts DEF RemoteSucceeds, ServerInv, WatchTrue, ScriptTrue
  <1>2. /\ scripts' = Without(scripts, k) /\ disk' = disk /\ srv' = srv /\ Live' = Live
        /\ tmp' = tmp /\ enrolled' = enrolled
    BY DEF RemoteSucceeds, Live
  <1>3. acked' \in Acked
    <2>1. Learn(x.cmd, x.arg) \in Acked
      BY <1>1 DEF Learn, ArgFits, ServerInv, ServerOK, Acked
    <2> QED
      BY <2>1 DEF RemoteSucceeds, ServerInv, ServerOK
  <1>4. ServerOK'
    BY <1>2, <1>3, WithoutHolds DEF ServerInv, ServerOK
  <1>5. ScriptsInv'
    <2>1. scripts # <<>>
      OBVIOUS
    <2> QED
      BY <1>2, <2>1, WithoutHolds DEF ServerInv, ScriptsInv
  <1>6. ToolTrue'
    <2>1. CASE tool' = IdleTool
      BY <2>1, IdleIsTrue
    <2>2. CASE /\ x.cmd = "provision" /\ x.arg \in Binaries
               /\ tool' = [tool EXCEPT !.pc = "online", !.cmd = "deploy"]
      <3>1. tool'.pc = "online" /\ tool'.cmd = "deploy" /\ tool'.arg = x.arg
        BY <1>1, <2>2 DEF FleetInv, ToolFields
      <3> QED
        BY <2>2, <3>1 DEF ToolTrue, AllCommands, ScriptArgs, ArgFits
    <2> QED
      BY <2>1, <2>2 DEF RemoteSucceeds
  <1>7. WatchTrue'
    BY <1>1, <1>2, WatchWithout
  <1> QED
    BY <1>4, <1>5, <1>6, <1>7 DEF ServerInv

LEMMA FailsHolds ==
    ASSUME ServerInv, RemoteFails
    PROVE  ServerInv'
  <1>1. /\ disk' = disk /\ srv' = srv /\ Live' = Live /\ tool' = IdleTool
        /\ tmp' = tmp /\ enrolled' = enrolled /\ acked' = acked
    BY DEF RemoteFails, Live
  <1>2. ToolTrue'
    BY <1>1, IdleIsTrue
  <1>3. CASE Watched = {} /\ scripts' = scripts
    <2>1. Watched' = {}
      BY <1>3 DEF Watched
    <2>2. ServerOK' /\ ScriptsInv'
      BY <1>1, <1>3 DEF ServerInv, ServerOK, ScriptsInv
    <2> QED
      BY <1>2, <2>1, <2>2 DEF ServerInv, WatchTrue
  <1>4. ASSUME NEW k \in Watched, scripts' = Without(scripts, k) PROVE ServerInv'
    <2>1. k \in 1..Len(scripts)
      BY <1>4 DEF Watched
    <2>2. WatchTrue'
      BY <1>4, <2>1, WatchWithout
    <2>3. ServerOK'
      BY <1>1, <1>4, <2>1, WithoutHolds DEF ServerInv, ServerOK
    <2>4. ScriptsInv'
      <3>1. scripts # <<>>
        BY <2>1
      <3> QED
        BY <1>1, <1>4, <2>1, <3>1, WithoutHolds DEF ServerInv, ScriptsInv
    <2> QED
      BY <1>2, <2>2, <2>3, <2>4 DEF ServerInv
  <1> QED
    BY <1>3, <1>4 DEF RemoteFails

(* The line of script k that is next.                                      *)
LEMMA NextLine ==
    ASSUME ServerInv, NEW k \in 1..Len(scripts), scripts[k].left # <<>>
    PROVE  LET x == scripts[k] IN
           /\ Ran(x) + 1 \in 1..Len(Script(x.cmd))
           /\ Head(x.left) = Script(x.cmd)[Ran(x) + 1]
           /\ Tail(x.left) \in Seq(ScriptLines) /\ Len(Tail(x.left)) = Len(x.left) - 1
           /\ \A j \in 1..Len(Tail(x.left)) : Tail(x.left)[j] = Script(x.cmd)[Ran(x) + 1 + j]
           /\ ~x.failed
  <1> DEFINE x == scripts[k]
             c == Script(x.cmd)
  <1>1. /\ x \in Running /\ ScriptTrue(x, disk) /\ Len(c) \in Nat /\ Len(x.left) \in Nat
        /\ Ran(x) \in 0..Len(c)
    BY ScriptFacts
  <1>2. /\ x.left \in Seq(ScriptLines) /\ x.left # <<>> /\ Ran(x) = Len(c) - Len(x.left)
        /\ \A j \in 1..Len(x.left) : x.left[j] = c[Ran(x) + j]
        /\ ~x.failed
    BY <1>1 DEF Running, ScriptTrue, Ran
  <1> HIDE DEF x, c
  <1>3. /\ Len(x.left) >= 1 /\ Head(x.left) = x.left[1]
        /\ Tail(x.left) \in Seq(ScriptLines) /\ Len(Tail(x.left)) = Len(x.left) - 1
        /\ \A j \in 1..Len(Tail(x.left)) : Tail(x.left)[j] = x.left[j + 1]
    BY <1>1, <1>2
  <1>4. Ran(x) + 1 \in 1..Len(c) /\ Head(x.left) = c[Ran(x) + 1]
    <2>1. \A m, n, r \in Nat : r = m - n /\ n >= 1 => r + 1 \in 1..m
      OBVIOUS
    <2>2. Ran(x) \in Nat
      BY <1>1
    <2>3. Ran(x) + 1 \in 1..Len(c)
      BY <1>1, <1>2, <1>3, <2>1, <2>2, Zenon
    <2>4. 1 \in 1..Len(x.left)
      BY <1>1, <1>3
    <2> QED
      BY <1>2, <1>3, <2>3, <2>4, Zenon
  <1>5. ASSUME NEW j \in 1..Len(Tail(x.left)) PROVE Tail(x.left)[j] = c[Ran(x) + 1 + j]
    <2>1. j + 1 \in 1..Len(x.left) /\ Ran(x) + (j + 1) = Ran(x) + 1 + j
      BY <1>1, <1>3
    <2> QED
      BY <1>2, <1>3, <2>1
  <1> QED
    BY <1>2, <1>3, <1>4, <1>5 DEF x, c

(* Script k after its next line.                                           *)
LEMMA AdvancedScript ==
    ASSUME ServerInv, NEW k \in 1..Len(scripts), scripts[k].left # <<>>
    PROVE  LET x == scripts[k]
               y == [x EXCEPT !.left = Tail(x.left)]
           IN  /\ y \in Running /\ Ran(y) = Ran(x) + 1
               /\ y.cmd = x.cmd /\ y.arg = x.arg /\ y.watched = x.watched
               /\ y.failed = x.failed /\ y.left = Tail(x.left)
               /\ \A d : /\ disk \subseteq d
                         /\ Head(x.left) \in Steps => Head(x.left) \in d
                         => ScriptTrue(y, d)
  <1> DEFINE x == scripts[k]
             y == [x EXCEPT !.left = Tail(x.left)]
             c == Script(x.cmd)
  <1>1. /\ x \in Running /\ ScriptTrue(x, disk) /\ Len(c) \in Nat /\ Len(x.left) \in Nat
        /\ Ran(x) \in 0..Len(c)
    BY ScriptFacts
  <1>2. /\ Ran(x) + 1 \in 1..Len(c) /\ Head(x.left) = c[Ran(x) + 1]
        /\ Tail(x.left) \in Seq(ScriptLines) /\ Len(Tail(x.left)) = Len(x.left) - 1
        /\ \A j \in 1..Len(Tail(x.left)) : Tail(x.left)[j] = c[Ran(x) + 1 + j]
        /\ ~x.failed
    BY NextLine
  <1>3. /\ y \in Running /\ y.cmd = x.cmd /\ y.arg = x.arg /\ y.watched = x.watched
        /\ y.failed = x.failed /\ y.left = Tail(x.left)
    BY <1>1, <1>2 DEF Running
  <1> HIDE DEF x, y
  <1>4. Ran(y) = Ran(x) + 1
    <2>1. Len(y.left) = Len(x.left) - 1
      BY <1>2, <1>3
    <2>2. \A m, n \in Nat : m - (n - 1) = m - n + 1
      OBVIOUS
    <2> QED
      BY <1>1, <1>3, <2>1, <2>2, Zenon DEF Ran
  <1>5. ASSUME NEW d, disk \subseteq d, Head(x.left) \in Steps => Head(x.left) \in d
        PROVE  ScriptTrue(y, d)
    <2>1. ArgFits(y.cmd, y.arg)
      BY <1>1, <1>3 DEF ScriptTrue
    <2>2. Len(y.left) <= Len(Script(y.cmd))
      <3>1. Len(x.left) <= Len(c)
        BY <1>1 DEF ScriptTrue
      <3>2. \A m, n \in Nat : n <= m => n - 1 <= m
        OBVIOUS
      <3> QED
        BY <1>1, <1>2, <1>3, <3>1, <3>2
    <2>3. \A j \in 1..Len(y.left) : y.left[j] = Script(y.cmd)[Ran(y) + j]
      BY <1>2, <1>3, <1>4
    <2>4. ASSUME NEW j \in 1..Ran(y), Script(y.cmd)[j] \in Steps
          PROVE  Script(y.cmd)[j] \in d
      <3>1. j \in 1..Ran(x) \/ j = Ran(x) + 1
        BY <1>1, <1>4
      <3>2. CASE j \in 1..Ran(x)
        BY <1>1, <1>2, <1>3, <1>5, <2>4, <3>2 DEF ScriptTrue
      <3>3. CASE j = Ran(x) + 1
        BY <1>2, <1>3, <1>5, <2>4, <3>3
      <3> QED
        BY <3>1, <3>2, <3>3
    <2> QED
      BY <1>2, <1>3, <2>1, <2>2, <2>3, <2>4 DEF ScriptTrue
  <1> QED
    BY <1>3, <1>4, <1>5 DEF x, y

(* What one script becomes, the others being left alone.                   *)
LEMMA OneScriptHolds ==
    ASSUME ServerInv, NEW k \in 1..Len(scripts), NEW y \in Running,
           scripts' = [scripts EXCEPT ![k] = y], disk \subseteq disk', ScriptTrue(y, disk'),
           y.cmd = scripts[k].cmd, y.arg = scripts[k].arg,
           y.watched = scripts[k].watched,
           tool' = tool
    PROVE  /\ scripts' \in Seq(Running) /\ Len(scripts') = Len(scripts)
           /\ \A j \in 1..Len(scripts') : ScriptTrue(scripts'[j], disk')
           /\ WatchTrue'
  <1>1. scripts \in Seq(Running)
    BY DEF ServerInv, ServerOK
  <1>2. /\ scripts' \in Seq(Running) /\ Len(scripts') = Len(scripts)
        /\ \A j \in 1..Len(scripts) : scripts'[j] = IF j = k THEN y ELSE scripts[j]
    BY <1>1, ExceptSeq
  <1>3. \A j \in 1..Len(scripts) : ScriptTrue(scripts[j], disk')
    BY DEF ServerInv, ScriptsInv, ScriptTrue
  <1>4. Watched' = Watched
    BY <1>2 DEF Watched
  <1>5. \A j \in Watched : /\ j \in 1..Len(scripts)
                           /\ scripts'[j].cmd = scripts[j].cmd /\ scripts'[j].arg = scripts[j].arg
    BY <1>2 DEF Watched
  <1>6. WatchTrue'
    BY <1>2, <1>4, <1>5 DEF ServerInv, WatchTrue
  <1> QED
    BY <1>2, <1>3, <1>6

LEMMA ServingEffect ==
    ASSUME ServerInv, NEW l, NEW k \in 1..Len(scripts), scripts[k].left # <<>>,
           l = Head(scripts[k].left), CanRun(l)
    PROVE  /\ Serving(l) \in Server /\ (Serving(l).running # None => Serving(l).up)
           /\ Enrolled(l, scripts[k].arg) \in [Machines -> Certs \cup {None}]
           /\ (CASE l = "fetch" -> scripts[k].arg [] l = "unlink" -> None [] OTHER -> tmp)
                 \in Binaries \cup {None}
  <1>1. srv \in Server /\ tmp \in Binaries \cup {None} /\ (srv.running # None => srv.up)
        /\ enrolled \in [Machines -> Certs \cup {None}]
    BY DEF ServerInv, ServerOK, ScriptsInv
  <1>2. Serving(l) \in Server /\ (Serving(l).running # None => Serving(l).up)
    <2>1. CASE l = "install"
      BY <1>1, <2>1 DEF Serving, Installs, Server
    <2>2. CASE l = "stop"
      BY <1>1, <2>2 DEF Serving, Server
    <2>3. CASE l = "restart" \/ l = "start"
      BY <1>1, <2>3, StartedEffect DEF Serving
    <2>4. CASE l \notin {"install", "stop", "restart", "start"}
      BY <1>1, <2>4 DEF Serving
    <2> QED
      BY <2>1, <2>2, <2>3, <2>4
  <1> DEFINE x == scripts[k]
  <1>3. /\ x.cmd \in AllCommands /\ Ran(x) + 1 \in 1..Len(Script(x.cmd))
        /\ l = Script(x.cmd)[Ran(x) + 1] /\ ArgFits(x.cmd, x.arg)
    BY ScriptFacts, NextLine DEF Running, ScriptTrue
  <1> HIDE DEF x
  <1>4. /\ l = "fetch" => x.cmd = "deploy"
        /\ l = "insert" => x.cmd = "enroll"
        /\ l = "delete" => x.cmd = "revoke"
    BY <1>3, LinePlaces
  <1>5. /\ l = "fetch" => x.arg \in Binaries
        /\ l \in {"insert", "delete"} => x.arg[1] \in Machines /\ x.arg[2] \in Certs
    BY <1>3, <1>4 DEF ArgFits
  <1>6. Enrolled(l, x.arg) \in [Machines -> Certs \cup {None}]
    BY <1>1, <1>5 DEF Enrolled
  <1>7. (CASE l = "fetch" -> x.arg [] l = "unlink" -> None [] OTHER -> tmp)
           \in Binaries \cup {None}
    BY <1>1, <1>5
  <1> QED
    BY <1>2, <1>6, <1>7 DEF x

LEMMA LineHolds ==
    ASSUME ServerInv, NEW k \in 1..Len(scripts), ScriptLine(k)
    PROVE  ServerInv'
  <1> DEFINE x == scripts[k]
             l == Head(x.left)
             y == [x EXCEPT !.left = Tail(x.left)]
             d == IF l \in Steps THEN disk \cup {l} ELSE disk
  <1>1. /\ x.left # <<>> /\ CanRun(l) /\ disk' = d /\ srv' = Serving(l)
        /\ enrolled' = Enrolled(l, x.arg) /\ inst' = inst /\ tool' = tool /\ acked' = acked
        /\ tmp' = CASE l = "fetch" -> x.arg [] l = "unlink" -> None [] OTHER -> tmp
        /\ scripts' = IF Tail(x.left) = <<>> /\ ~x.watched THEN Without(scripts, k)
                      ELSE [scripts EXCEPT ![k].left = Tail(@)]
    BY DEF ScriptLine, infraVars
  <1>2. /\ y \in Running /\ y.cmd = x.cmd /\ y.arg = x.arg /\ y.watched = x.watched
        /\ ScriptTrue(y, d)
    BY <1>1, AdvancedScript
  <1>3. /\ srv' \in Server /\ (srv'.running # None => srv'.up)
        /\ enrolled' \in [Machines -> Certs \cup {None}] /\ tmp' \in Binaries \cup {None}
    BY <1>1, ServingEffect
  <1>4. disk \subseteq d /\ disk' \subseteq Steps
    BY <1>1 DEF ServerInv, ServerOK
  <1>5. [scripts EXCEPT ![k].left = Tail(@)] = [scripts EXCEPT ![k] = y]
    OBVIOUS
  <1>6. ToolTrue' /\ Live' = Live
    BY <1>1 DEF ServerInv, ToolTrue, Live
  <1> HIDE DEF y, d
  <1>7. /\ scripts' \in Seq(Running)
        /\ \A j \in 1..Len(scripts') : ScriptTrue(scripts'[j], disk')
        /\ WatchTrue'
    <2>1. CASE scripts' = Without(scripts, k)
      BY <1>1, <1>4, <2>1, WithoutHolds, WatchWithout
    <2>2. CASE scripts' = [scripts EXCEPT ![k].left = Tail(@)]
      BY <1>1, <1>2, <1>4, <1>5, <2>2, OneScriptHolds
    <2> QED
      BY <1>1, <2>1, <2>2
  <1>8. \A f \in disk' : Needs(f) \subseteq disk'
    <2>1. Needs(l) \subseteq disk
      BY <1>1 DEF CanRun
    <2>2. disk' = disk \/ disk' = disk \cup {l}
      BY <1>1 DEF d
    <2> QED
      BY <2>1, <2>2 DEF ServerInv, ScriptsInv
  <1>9. Live # {}
    <2>1. scripts # <<>>
      OBVIOUS
    <2> QED
      BY <2>1 DEF ServerInv, ScriptsInv
  <1>10. ServerOK'
    BY <1>1, <1>3, <1>4, <1>7 DEF ServerInv, ServerOK
  <1>11. ScriptsInv'
    BY <1>3, <1>6, <1>7, <1>8, <1>9 DEF ScriptsInv
  <1> QED
    BY <1>6, <1>7, <1>10, <1>11 DEF ServerInv

LEMMA FailedLineHolds ==
    ASSUME ServerInv, NEW k \in 1..Len(scripts), ScriptFails(k)
    PROVE  ServerInv'
  <1> DEFINE x == scripts[k]
             y == [x EXCEPT !.left = <<>>, !.failed = TRUE]
  <1>1. /\ UNCHANGED <<infraVars, disk, tmp, srv, enrolled, acked>>
        /\ \/ scripts' = Without(scripts, k)
           \/ scripts' = [scripts EXCEPT ![k].left = <<>>, ![k].failed = TRUE]
    BY DEF ScriptFails
  <1>2. /\ x \in Running /\ ScriptTrue(x, disk) /\ Len(Script(x.cmd)) \in Nat
    BY ScriptFacts
  <1>3. /\ y \in Running /\ y.cmd = x.cmd /\ y.arg = x.arg /\ y.watched = x.watched
        /\ y.left = <<>> /\ y.failed
    <2>1. <<>> \in Seq(ScriptLines)
      OBVIOUS
    <2> HIDE DEF x
    <2>2. /\ y.cmd = x.cmd /\ y.arg = x.arg /\ y.watched = x.watched
          /\ y.left = <<>> /\ y.failed
      BY <1>2 DEF Running
    <2>3. y \in Running
      BY <1>2, <2>1 DEF Running
    <2> QED
      BY <2>2, <2>3
  <1>4. ScriptTrue(y, disk)
    <2>1. ArgFits(y.cmd, y.arg)
      BY <1>2, <1>3 DEF ScriptTrue
    <2>2. Len(y.left) = 0 /\ Len(y.left) <= Len(Script(y.cmd)) /\ y.failed /\ y.left = <<>>
      BY <1>2, <1>3
    <2> HIDE DEF y
    <2> QED
      BY <2>1, <2>2 DEF ScriptTrue
  <1>5. [scripts EXCEPT ![k].left = <<>>, ![k].failed = TRUE] = [scripts EXCEPT ![k] = y]
    <2>1. scripts \in Seq(Running)
      BY DEF ServerInv, ServerOK
    <2> QED
      BY <1>2, <2>1 DEF Running
  <1>6. ToolTrue' /\ Live' = Live
    BY <1>1 DEF ServerInv, ToolTrue, Live, infraVars
  <1> HIDE DEF y
  <1>7. /\ scripts' \in Seq(Running)
        /\ \A j \in 1..Len(scripts') : ScriptTrue(scripts'[j], disk')
        /\ WatchTrue'
    <2>1. CASE scripts' = Without(scripts, k)
      BY <1>1, <2>1, WithoutHolds, WatchWithout DEF infraVars
    <2>2. CASE scripts' = [scripts EXCEPT ![k].left = <<>>, ![k].failed = TRUE]
      BY <1>1, <1>3, <1>4, <1>5, <2>2, OneScriptHolds DEF infraVars
    <2> QED
      BY <1>1, <2>1, <2>2
  <1>8. Live # {}
    <2>1. scripts # <<>>
      OBVIOUS
    <2> QED
      BY <2>1 DEF ServerInv, ScriptsInv
  <1>9. ServerOK'
    BY <1>1, <1>7 DEF ServerInv, ServerOK
  <1>10. ScriptsInv'
    BY <1>1, <1>6, <1>7, <1>8 DEF ServerInv, ScriptsInv
  <1> QED
    BY <1>6, <1>7, <1>9, <1>10 DEF ServerInv

LEMMA DiesHolds ==
    ASSUME ServerInv, ToolDies, Unwatch, UNCHANGED <<disk, tmp, srv, enrolled, acked>>
    PROVE  ServerInv'
  <1>1. scripts' = [k \in 1..Len(scripts) |-> [scripts[k] EXCEPT !.watched = FALSE]]
    BY DEF Unwatch
  <1>2. scripts \in Seq(Running) /\ Len(scripts) \in Nat
    BY LenProperties DEF ServerInv, ServerOK
  <1>3. ASSUME NEW k \in 1..Len(scripts)
        PROVE  /\ scripts'[k] \in Running /\ ~scripts'[k].watched
               /\ ScriptTrue(scripts'[k], disk')
    <2>1. scripts[k] \in Running /\ ScriptTrue(scripts[k], disk)
      BY ScriptFacts
    <2>2. scripts'[k] = [scripts[k] EXCEPT !.watched = FALSE]
      BY <1>1
    <2>3. /\ scripts'[k] \in Running /\ ~scripts'[k].watched
          /\ scripts'[k].cmd = scripts[k].cmd /\ scripts'[k].arg = scripts[k].arg
          /\ scripts'[k].left = scripts[k].left /\ scripts'[k].failed = scripts[k].failed
      BY <2>1, <2>2 DEF Running
    <2> QED
      BY <2>1, <2>3 DEF ScriptTrue, Ran
  <1>4. scripts' \in Seq(Running) /\ Len(scripts') = Len(scripts)
    BY <1>1, <1>2, <1>3
  <1>5. Watched' = {}
    BY <1>3, <1>4 DEF Watched
  <1>6. ToolTrue' /\ Live' = Live
    BY IdleIsTrue DEF ToolDies, Live
  <1>7. ServerOK'
    BY <1>4 DEF ServerInv, ServerOK
  <1>8. ScriptsInv'
    <2>1. scripts' # <<>> => scripts # <<>>
      BY <1>2, <1>4
    <2> QED
      BY <1>3, <1>4, <1>6, <2>1 DEF ServerInv, ScriptsInv
  <1> QED
    BY <1>5, <1>6, <1>7, <1>8 DEF ServerInv, WatchTrue

LEMMA InitServer == Init => ServerInv
  <1> SUFFICES ASSUME Init PROVE ServerInv
    OBVIOUS
  <1>1. scripts = <<>> /\ Len(scripts) = 0 /\ scripts \in Seq(Running) /\ Watched = {}
    BY DEF Init, VmInit, Watched
  <1>2. ToolTrue
    BY DEF Init, InfraInit, ToolTrue, IdleTool
  <1>3. ServerOK
    BY <1>1 DEF Init, VmInit, ServerOK, FreshServer, Server, NothingAcked, Acked
  <1>4. ScriptsInv
    BY <1>1 DEF Init, VmInit, ScriptsInv, FreshServer
  <1> QED
    BY <1>1, <1>2, <1>3, <1>4 DEF ServerInv, WatchTrue

LEMMA ManageVmServer ==
    ASSUME ServerInv, FleetInv, ManageVm
    PROVE  ServerInv'
  <1>1. ASSUME NEW a \in Arches, CreateBegins(a), UNCHANGED vmVars PROVE ServerInv'
    <2>1. tool'.pc = "ensure" /\ tool'.cmd = "create" /\ Live' = Live /\ tool.pc = "idle"
      BY <1>1 DEF CreateBegins, Live
    <2> QED
      BY <1>1, <2>1, SameServerHolds DEF ToolTrue
  <1>2. ASSUME NEW a \in Arches, CreateFindsVm(a), UNCHANGED vmVars PROVE ServerInv'
    <2>1. tool' = tool /\ Live' = Live
      BY <1>2 DEF CreateFindsVm, Live
    <2> QED
      BY <1>2, <2>1, SameServerHolds DEF ServerInv, ToolTrue
  <1>3. ASSUME EnsureInfra, UNCHANGED vmVars PROVE ServerInv'
    <2>1. /\ tool'.pc = "ensure" /\ tool'.cmd = tool.cmd /\ Live' = Live /\ tool.pc = "ensure"
      BY <1>3 DEF EnsureInfra, Live, FleetInv, ToolFields
    <2> QED
      BY <1>3, <2>1, SameServerHolds DEF ServerInv, ToolTrue
  <1>4. ASSUME PurgeInfra, UNCHANGED vmVars PROVE ServerInv'
    <2>1. tool.pc = "purge" /\ Live' = Live
      BY <1>4 DEF PurgeInfra, Live
    <2>2. tool' = IdleTool \/ (tool'.pc = "purge" /\ tool'.cmd = tool.cmd)
      BY <1>4, <2>1 DEF PurgeInfra, FleetInv, ToolFields
    <2> QED
      BY <1>4, <2>1, <2>2, SameServerHolds, IdleIsTrue DEF ServerInv, ToolTrue
  <1>5. ASSUME NEW v \in Vms, RunInstances(v), FreshDisk PROVE ServerInv'
    <2>1. tool'.pc = "save" /\ tool'.cmd = tool.cmd /\ tool.pc = "ensure"
      BY <1>5 DEF RunInstances, FleetInv, ToolFields
    <2> QED
      BY <1>5, <2>1, FreshDiskHolds DEF ServerInv, ToolTrue
  <1>6. ASSUME NEW v \in Vms, SaveState(v), UNCHANGED vmVars PROVE ServerInv'
    BY <1>6, SameServerHolds, IdleIsTrue DEF SaveState, Live
  <1>7. ASSUME NEW v \in Vms, Booted(v), Boot PROVE ServerInv'
    <2>1. tool' = tool /\ v \in Live'
      BY <1>7 DEF Booted, Live, LiveStates, FleetInv, InstOK
    <2> QED
      BY <1>7, <2>1, BootHolds DEF ServerInv, ToolTrue
  <1>8. ASSUME NEW v \in Vms, StartVm(v), UNCHANGED vmVars PROVE ServerInv'
    <2>1. tool' = tool
      BY <1>8 DEF StartVm
    <2>2. Live' = Live
      <3>1. \A w \in Vms : inst'[w].st \in LiveStates <=> inst[w].st \in LiveStates
        BY <1>8 DEF StartVm, FleetInv, InstOK, LiveStates
      <3> QED
        BY <3>1 DEF Live
    <2> QED
      BY <1>8, <2>1, <2>2, SameServerHolds DEF ServerInv, ToolTrue
  <1>9. ASSUME NEW v \in Vms, StopVm(v), PowerOff PROVE ServerInv'
    BY <1>9, PowerOffHolds DEF StopVm, ServerInv, ToolTrue
  <1>10. ASSUME NEW v \in Vms, RebootVm(v), Boot PROVE ServerInv'
    <2>1. tool' = tool /\ v \in Live'
      BY <1>10 DEF RebootVm, Resolved, Live, infraVars
    <2> QED
      BY <1>10, <2>1, BootHolds DEF ServerInv, ToolTrue
  <1>11. ASSUME NEW v \in Vms, NEW purge \in BOOLEAN, TerminateVm(v, purge), PowerOff
         PROVE  ServerInv'
    <2>1. tool' = tool \/ (tool'.pc = "purge" /\ tool'.cmd = "none")
      BY <1>11 DEF TerminateVm, IdleTool
    <2> QED
      BY <1>11, <2>1, PowerOffHolds DEF ServerInv, ToolTrue
  <1> QED
    BY <1>1, <1>2, <1>3, <1>4, <1>5, <1>6, <1>7, <1>8, <1>9, <1>10, <1>11 DEF ManageVm

LEMMA NextServer == FleetInv /\ ServerInv /\ [Next]_vars => ServerInv'
  <1> SUFFICES ASSUME FleetInv, ServerInv, [Next]_vars PROVE ServerInv'
    OBVIOUS
  <1>1. ASSUME NEW cmd \in Commands, NEW arg \in Args(cmd), RemoteBegins(cmd, arg)
        PROVE  ServerInv'
    <2>1. /\ tool'.pc = "online" /\ tool'.cmd = cmd /\ tool'.arg = arg /\ tool.pc = "idle"
          /\ Live' = Live /\ UNCHANGED vmVars
      BY <1>1 DEF RemoteBegins, IdleTool, Live
    <2>2. cmd \in AllCommands
      BY CommandsAssumption
    <2>3. arg \in ScriptArgs /\ ArgFits(cmd, arg)
      BY <2>2, ArgsFit
    <2> QED
      BY <2>1, <2>2, <2>3, SameServerHolds DEF ToolTrue
  <1>2. CASE AgentOffline
    BY <1>2, SameServerHolds, IdleIsTrue DEF AgentOffline, Live
  <1>3. CASE ManageServer
    BY <1>1, <1>2, <1>3, SendHolds, FailsHolds, SucceedsHolds DEF ManageServer
  <1>4. CASE RestartOnFailure
    <2>1. srv' \in Server /\ srv'.up /\ srv.up
      BY <1>4, StartedEffect DEF RestartOnFailure, ServerInv, ServerOK
    <2>2. /\ Live' = Live /\ tool' = tool /\ scripts' = scripts /\ disk' = disk /\ tmp' = tmp
          /\ enrolled' = enrolled /\ acked' = acked
      BY <1>4 DEF RestartOnFailure, infraVars, Live
    <2>3. ServerOK' /\ ScriptsInv' /\ ToolTrue'
      BY <2>1, <2>2 DEF ServerInv, ServerOK, ScriptsInv, ToolTrue
    <2>4. Watched' = Watched
      BY <2>2 DEF Watched
    <2> QED
      BY <2>2, <2>3, <2>4 DEF ServerInv, WatchTrue
  <1>5. CASE VmRuns
    BY <1>4, <1>5, LineHolds, FailedLineHolds DEF VmRuns, LineCannot
  <1>6. ASSUME Online, Boot, UNCHANGED infraVars PROVE ServerInv'
    <2>1. tool' = tool /\ Live' # {}
      BY <1>6 DEF Online, Resolved, Live, infraVars
    <2> QED
      BY <1>6, <2>1, BootHolds DEF ServerInv, ToolTrue
  <1>7. CASE Fault
    BY <1>6, <1>7, DiesHolds, FailedLineHolds DEF Fault
  <1>8. CASE UNCHANGED vars
    BY <1>8, SameServerHolds DEF vars, infraVars, Live, ServerInv, ToolTrue
  <1> QED
    BY <1>3, <1>5, <1>7, <1>8, ManageVmServer DEF Next

(***************************************************************************)
(* vm.json names an instance, or none, and an architecture.                *)
(***************************************************************************)
FileOK == file \in [id : Vms \cup {NoVm}, arch : Arches \cup {"none"}]

FileInv == FileOK /\ (tool.pc = "save" => tool.arg \in Arches)

LEMMA InitFile == Init => FileInv
  BY DEF Init, InfraInit, IdleTool, FileInv, FileOK

LEMMA NextFile == FleetInv /\ FileInv /\ [Next]_vars => FileInv'
  <1> SUFFICES ASSUME FleetInv, FileInv, [Next]_vars PROVE FileInv'
    OBVIOUS
  <1>1. ASSUME file' = file, tool'.pc # "save" \/ tool' = tool PROVE FileInv'
    BY <1>1 DEF FileInv, FileOK
  <1>2. IdleTool.pc = "idle"
    BY DEF IdleTool
  <1>3. CASE ManageVm
    <2>1. ASSUME NEW a \in Arches, CreateFindsVm(a) PROVE FileInv'
      <3>1. Live # {}
        BY <2>1, FS_EmptySet DEF CreateFindsVm
      <3>2. (CHOOSE v \in Live : TRUE) \in Vms
        BY <3>1 DEF Live
      <3> QED
        BY <2>1, <3>2 DEF CreateFindsVm, FileInv, FileOK
    <2>2. ASSUME NEW a \in Arches, CreateBegins(a) PROVE FileInv'
      BY <1>1, <2>2 DEF CreateBegins
    <2>3. CASE EnsureInfra
      BY <1>1, <2>3 DEF EnsureInfra, FleetInv, ToolFields
    <2>4. CASE PurgeInfra
      <3>1. tool' = IdleTool \/ tool' = [tool EXCEPT !.todo = Tail(@)]
        BY <2>4 DEF PurgeInfra
      <3>2. tool.pc = "purge" /\ file' = file
        BY <2>4 DEF PurgeInfra
      <3> QED
        BY <1>1, <1>2, <3>1, <3>2 DEF FleetInv, ToolFields
    <2>5. ASSUME NEW v \in Vms, RunInstances(v) PROVE FileInv'
      <3>1. tool'.arg = tool.arg /\ tool.arg \in Arches /\ file' = file
        BY <2>5 DEF RunInstances, FleetInv, Ensuring, ToolFields
      <3> QED
        BY <3>1 DEF FileInv, FileOK
    <2>6. ASSUME NEW v \in Vms, SaveState(v) PROVE FileInv'
      BY <1>2, <2>6 DEF SaveState, FileInv, FileOK
    <2>7. ASSUME NEW v \in Vms, Booted(v) \/ StartVm(v) \/ StopVm(v) \/ RebootVm(v)
          PROVE  FileInv'
      BY <1>1, <2>7 DEF Booted, StartVm, StopVm, RebootVm, infraVars
    <2>8. ASSUME NEW v \in Vms, NEW purge \in BOOLEAN, TerminateVm(v, purge) PROVE FileInv'
      <3>1. tool' = tool \/ tool'.pc = "purge"
        BY <2>8 DEF TerminateVm, IdleTool
      <3> QED
        BY <1>1, <2>8, <3>1 DEF TerminateVm
    <2> QED
      BY <1>3, <2>1, <2>2, <2>3, <2>4, <2>5, <2>6, <2>7, <2>8 DEF ManageVm
  <1>4. CASE ManageServer
    <2>1. file' = file
      BY <1>4 DEF ManageServer, RemoteBegins, SendCommand, AgentOffline, RemoteFails,
                  RemoteSucceeds
    <2>2. tool'.pc # "save"
      BY <1>2, <1>4 DEF ManageServer, RemoteBegins, SendCommand, AgentOffline, RemoteFails,
                        RemoteSucceeds, IdleTool, FleetInv, ToolFields
    <2> QED
      BY <1>1, <2>1, <2>2
  <1>5. CASE VmRuns
    BY <1>1, <1>5 DEF VmRuns, RestartOnFailure, ScriptLine, LineCannot, ScriptFails, infraVars
  <1>6. CASE Fault
    BY <1>1, <1>2, <1>6 DEF Fault, ToolDies, ScriptFails, infraVars
  <1>7. CASE UNCHANGED vars
    BY <1>1, <1>7 DEF vars, infraVars
  <1> QED
    BY <1>3, <1>4, <1>5, <1>6, <1>7 DEF Next

FaultsOK == faults \in Nat

(***************************************************************************)
(* Every reachable state of the VM, of its scripts and of the commands is  *)
(* well typed, and a server that runs runs on a VM.                        *)
(***************************************************************************)
THEOREM TypeCorrect == Spec => []TypeOK
  <1>1. FleetInv /\ ServerInv /\ FileInv /\ FaultsOK => TypeOK
    BY DEF FaultsOK, FleetInv, InstOK, ServerInv, ServerOK, ScriptsInv, Server, FileInv, FileOK,
           TypeOK, InfraTypeOK
  <1>2. Init => FaultsOK
    BY DEF Init, FaultsOK
  <1>3. FaultsOK /\ [Next]_vars => FaultsOK'
    <2>1. Next => faults' = faults \/ faults' = faults + 1
      BY DEF Next, Fault
    <2> QED
      BY <2>1 DEF vars, FaultsOK
  <1> QED
    BY <1>1, <1>2, <1>3, InitHolds, StepHolds, InitServer, NextServer, InitFile, NextFile, PTL
    DEF Spec

(***************************************************************************)
(* Enabled units.                                                          *)
(***************************************************************************)
UnitsInv ==
    \A f \in {"enable", "timer"} :
        f \in disk => UnitNeeds(f) \subseteq disk \cup LeftToOthers(f)

LEMMA DiskSteps ==
    ASSUME [Next]_vars
    PROVE  disk' \in {disk, {}} \/ \E k \in 1..Len(scripts) : ScriptLine(k)
  <1>1. CASE ManageVm
    BY <1>1 DEF ManageVm, vmVars, FreshDisk, Boot, PowerOff
  <1>2. CASE ManageServer
    BY <1>2 DEF ManageServer, RemoteBegins, SendCommand, AgentOffline, RemoteFails,
                RemoteSucceeds, vmVars
  <1>3. CASE VmRuns
    BY <1>3 DEF VmRuns, RestartOnFailure, LineCannot, ScriptFails
  <1>4. CASE Fault
    BY <1>4 DEF Fault, ScriptFails, Boot
  <1> QED
    BY <1>1, <1>2, <1>3, <1>4 DEF Next, vars, vmVars

LEMMA ProvisionLines ==
    \A c \in {"provision", "provision_drive", "provision_sealer"} :
        \A j \in 1..Len(Script(c)) : Script(c)[j] \in Steps
  BY DEF Steps

LEMMA UnitLines ==
    \A c \in AllCommands : \A n \in 1..Len(Script(c)) :
        /\ Script(c)[n] = "enable" => c = "provision" /\ n = 7
        /\ Script(c)[n] = "timer" => c = "provision_sealer" /\ n = 3
  BY LinePlaces

(* The line that enables a unit is the last of its script, and each line   *)
(* before it has run and has left on the disk what it put there.           *)
LEMMA LastLine ==
    ASSUME ServerInv, NEW k \in 1..Len(scripts), ScriptLine(k),
           NEW f \in {"enable", "timer"}, Head(scripts[k].left) = f
    PROVE  UnitNeeds(f) \subseteq disk \cup LeftToOthers(f)
  <1> DEFINE x == scripts[k]
             c == Script(x.cmd)
  <1>1. /\ x.cmd \in AllCommands /\ Ran(x) + 1 \in 1..Len(c) /\ f = c[Ran(x) + 1]
        /\ Ran(x) \in Nat
        /\ \A j \in 1..Ran(x) : c[j] \in Steps => c[j] \in disk
    <2>1. scripts[k].left # <<>>
      BY DEF ScriptLine
    <2> QED
      BY <2>1, ScriptFacts, NextLine DEF Running, ScriptTrue
  <1> HIDE DEF x
  <1>2. CASE f = "enable"
    <2>1. x.cmd = "provision" /\ Ran(x) = 6
      <3> DEFINE n == Ran(x) + 1
      <3>1. n \in 1..Len(Script(x.cmd)) /\ Script(x.cmd)[n] = f /\ x.cmd \in AllCommands
        BY <1>1
      <3> HIDE DEF n
      <3>2. x.cmd = "provision" /\ n = 7
        BY <1>2, <3>1, UnitLines
      <3> QED
        BY <1>1, <3>2 DEF n
    <2>2. c = <<"user", "dirs", "own_data", "unit", "tls", "own_etc", "enable">>
      BY <2>1, ScriptTable
    <2>3. \A j \in 1..6 : c[j] \in Steps
      <3>1. \A j \in 1..6 : j \in 1..Len(c)
        BY <2>2
      <3>2. c = Script("provision")
        BY <2>1
      <3> HIDE DEF c
      <3> QED
        BY <3>1, <3>2, ProvisionLines
    <2>4. \A j \in 1..6 : c[j] \in disk
      BY <1>1, <2>1, <2>3
    <2>5. /\ c[1] = "user" /\ c[2] = "dirs" /\ c[3] = "own_data"
          /\ c[4] = "unit" /\ c[5] = "tls" /\ c[6] = "own_etc"
      BY <2>2
    <2> HIDE DEF c
    <2> QED
      BY <1>2, <2>4, <2>5 DEF UnitNeeds, ServerNeeds, LeftToOthers
  <1>3. CASE f = "timer"
    <2>1. x.cmd = "provision_sealer" /\ Ran(x) = 2
      <3> DEFINE n == Ran(x) + 1
      <3>1. n \in 1..Len(Script(x.cmd)) /\ Script(x.cmd)[n] = f /\ x.cmd \in AllCommands
        BY <1>1
      <3> HIDE DEF n
      <3>2. x.cmd = "provision_sealer" /\ n = 3
        BY <1>3, <3>1, UnitLines
      <3> QED
        BY <1>1, <3>2 DEF n
    <2>2. c = <<"lib", "timer_unit", "timer">>
      BY <2>1, ScriptTable
    <2>3. \A j \in 1..2 : c[j] \in Steps
      <3>1. \A j \in 1..2 : j \in 1..Len(c)
        BY <2>2
      <3>2. c = Script("provision_sealer")
        BY <2>1
      <3> HIDE DEF c
      <3> QED
        BY <3>1, <3>2, ProvisionLines
    <2>4. \A j \in 1..2 : c[j] \in disk
      BY <1>1, <2>1, <2>3
    <2>5. c[1] = "lib" /\ c[2] = "timer_unit"
      BY <2>2
    <2> HIDE DEF c
    <2> QED
      BY <1>3, <2>4, <2>5 DEF UnitNeeds, SealerNeeds, LeftToOthers
  <1> QED
    BY <1>2, <1>3

LEMMA NextUnits == ServerInv /\ UnitsInv /\ [Next]_vars => UnitsInv'
  <1> SUFFICES ASSUME ServerInv, UnitsInv, [Next]_vars PROVE UnitsInv'
    OBVIOUS
  <1>1. CASE disk' \in {disk, {}}
    BY <1>1 DEF UnitsInv
  <1>2. ASSUME NEW k \in 1..Len(scripts), ScriptLine(k) PROVE UnitsInv'
    <2> DEFINE l == Head(scripts[k].left)
    <2>1. disk' = disk \/ disk' = disk \cup {l}
      BY <1>2 DEF ScriptLine
    <2>2. l \in {"enable", "timer"} => UnitNeeds(l) \subseteq disk \cup LeftToOthers(l)
      BY <1>2, LastLine
    <2> HIDE DEF l
    <2> QED
      BY <2>1, <2>2 DEF UnitsInv
  <1> QED
    BY <1>1, <1>2, DiskSteps

(***************************************************************************)
(* A unit that is enabled has all that its command can give it, and the    *)
(* mount all that it needs (cmd_provision and its two siblings), through   *)
(* failing lines, scripts that outlive their command, and reboots.         *)
(***************************************************************************)
THEOREM EnabledUnitsAreComplete == Spec => []EnabledMeansComplete
  <1>1. ServerInv /\ UnitsInv => EnabledMeansComplete
    <2> SUFFICES ASSUME ServerInv, UnitsInv, NEW f \in disk
                 PROVE  UnitNeeds(f) \subseteq disk \cup LeftToOthers(f)
      BY DEF EnabledMeansComplete
    <2>1. CASE f \in {"enable", "timer"}
      BY <2>1 DEF UnitsInv
    <2>2. CASE f = "mount"
      <3>1. \A g \in disk : Needs(g) \subseteq disk
        BY DEF ServerInv, ScriptsInv
      <3>2. {"rclone", "drive_unit", "mountpoint", "conf", "own_conf"} \subseteq disk
        BY <2>2, <3>1 DEF Needs
      <3>3. "user" \in disk
        <4>1. Needs("mountpoint") \subseteq disk
          BY <3>1, <3>2
        <4> QED
          BY <4>1 DEF Needs
      <3>4. "dirs" \in disk
        <4>1. Needs("conf") \subseteq disk
          BY <3>1, <3>2
        <4> QED
          BY <4>1 DEF Needs
      <3> QED
        BY <2>2, <3>2, <3>3, <3>4 DEF UnitNeeds, MountNeeds
    <2>3. CASE f \notin {"enable", "timer", "mount"}
      BY <2>3 DEF UnitNeeds
    <2> QED
      BY <2>1, <2>2, <2>3
  <1>2. Init => UnitsInv
    BY DEF Init, VmInit, UnitsInv
  <1> QED
    BY <1>1, <1>2, InitHolds, StepHolds, InitServer, NextServer, NextUnits, PTL DEF Spec

(***************************************************************************)
(* What the operator was told.  Until two scripts about the same thing     *)
(* have run at once, no script that could undo what he was told runs, and  *)
(* the script that is waited for has done what its lines say, for no other *)
(* touches the same thing beside it.                                       *)
(***************************************************************************)
DeployTrue(x, t, v) ==
    x.cmd = "deploy" => /\ Ran(x) \in {1, 2} => t = x.arg
                        /\ Ran(x) >= 2 => v.installed = x.arg
                        /\ Ran(x) >= 4 => v.running \in {None, x.arg}

EnrollTrue(x, e) ==
    /\ x.cmd = "enroll" /\ Ran(x) >= 1 => e[x.arg[1]] = x.arg[2]
    /\ x.cmd = "revoke" /\ Ran(x) >= 1 => e[x.arg[1]] = None

(* One script about a thing at most, as long as its history is clean.      *)
OneDeploy ==
    ~acked.deploys =>
        \A j, k \in 1..Len(scripts) : Deploys(scripts[j]) /\ Deploys(scripts[k]) => j = k

OneLister ==
    \A m \in Machines : ~acked.lists[m] =>
        \A j, k \in 1..Len(scripts) : Lists(scripts[j], m) /\ Lists(scripts[k], m) => j = k

Sole == OneDeploy /\ OneLister

BinaryInv ==
    acked.binary # Unknown /\ ~acked.deploys =>
        /\ srv.installed = acked.binary
        /\ srv.running \in {None, acked.binary}
        /\ \A k \in 1..Len(scripts) : ~Deploys(scripts[k])

CertInv ==
    \A m \in Machines : acked.cert[m] # Unknown /\ ~acked.lists[m] =>
        /\ enrolled[m] = acked.cert[m]
        /\ \A k \in 1..Len(scripts) : ~Lists(scripts[k], m)

AloneInv ==
    \A k \in Watched : ~scripts[k].failed =>
        /\ ~acked.deploys => DeployTrue(scripts[k], tmp, srv)
        /\ \A m \in Machines : Lists(scripts[k], m) /\ ~acked.lists[m]
                                  => EnrollTrue(scripts[k], enrolled)

AcksInv == Sole /\ BinaryInv /\ CertInv /\ AloneInv

LEMMA StartedRuns ==
    ASSUME NEW x \in Server
    PROVE  Started(x).installed = x.installed /\ Started(x).running \in {None, x.installed}
  BY StartedEffect

(* Steps that leave no script.                                             *)
LEMMA PowerAcks ==
    ASSUME AcksInv, scripts' = <<>>, acked' = acked, enrolled' = enrolled,
           srv'.installed = srv.installed, srv'.running \in {None, srv.installed}
    PROVE  AcksInv'
  <1>1. Len(scripts') = 0 /\ Watched' = {}
    BY DEF Watched
  <1> QED
    BY <1>1 DEF AcksInv, Sole, OneDeploy, OneLister, BinaryInv, CertInv, AloneInv

(* Steps that only take scripts away, or give up waiting for one.          *)
LEMMA FewerAcks ==
    ASSUME AcksInv, Sole', acked' = acked, enrolled' = enrolled, srv' = srv, tmp' = tmp,
           \A j \in 1..Len(scripts') : \E i \in 1..Len(scripts) :
               /\ scripts'[j].cmd = scripts[i].cmd /\ scripts'[j].arg = scripts[i].arg
               /\ \/ scripts'[j] = scripts[i]
                  \/ scripts'[j].failed \/ ~scripts'[j].watched
    PROVE  AcksInv'
  <1>1. BinaryInv' /\ CertInv'
    <2>1. ASSUME NEW j \in 1..Len(scripts')
          PROVE  \E i \in 1..Len(scripts) : /\ Deploys(scripts'[j]) <=> Deploys(scripts[i])
                                            /\ \A m : Lists(scripts'[j], m) <=> Lists(scripts[i], m)
      BY DEF Deploys, Lists
    <2>2. BinaryInv'
      BY <2>1 DEF AcksInv, BinaryInv
    <2>3. CertInv'
      BY <2>1 DEF AcksInv, CertInv
    <2> QED
      BY <2>2, <2>3
  <1>2. ASSUME NEW j \in Watched', ~scripts'[j].failed
        PROVE  \E i \in Watched : scripts'[j] = scripts[i]
    BY <1>2 DEF Watched
  <1>3. AloneInv'
    BY <1>2 DEF AcksInv, AloneInv
  <1> QED
    BY <1>1, <1>3 DEF AcksInv

(* The scripts stand where they stood.                                     *)
LEMMA SameSole ==
    ASSUME Sole, acked' = acked, Len(scripts') = Len(scripts),
           \A j \in 1..Len(scripts) : /\ scripts'[j].cmd = scripts[j].cmd
                                      /\ scripts'[j].arg = scripts[j].arg
    PROVE  Sole'
  BY DEF Sole, OneDeploy, OneLister, Deploys, Lists

LEMMA WithoutSole ==
    ASSUME ServerInv, Sole, NEW k \in 1..Len(scripts), scripts' = Without(scripts, k),
           acked'.deploys = acked.deploys, acked'.lists = acked.lists
    PROVE  Sole'
  <1> DEFINE f(j) == IF j < k THEN j ELSE j + 1
  <1>1. scripts \in Seq(Running)
    BY DEF ServerInv, ServerOK
  <1>2. Len(scripts) \in Nat
    BY <1>1, LenProperties
  <1>3. /\ Len(scripts') = Len(scripts) - 1
        /\ \A j \in 1..Len(scripts') : scripts'[j] = scripts[f(j)]
    BY <1>1, WithoutEffect
  <1>4. \A j \in 1..Len(scripts') : f(j) \in 1..Len(scripts)
    BY <1>2, <1>3
  <1>5. \A i, j \in 1..Len(scripts') : f(i) = f(j) => i = j
    BY <1>2, <1>3
  <1> HIDE DEF f
  <1>6. OneDeploy'
    BY <1>3, <1>4, <1>5 DEF Sole, OneDeploy
  <1>7. OneLister'
    BY <1>3, <1>4, <1>5 DEF Sole, OneLister
  <1> QED
    BY <1>6, <1>7 DEF Sole

(* What remains when script k goes.                                        *)
LEMMA Others ==
    ASSUME ServerInv, NEW k \in 1..Len(scripts), scripts' = Without(scripts, k)
    PROVE  \A j \in 1..Len(scripts') : \E i \in 1..Len(scripts) : i # k /\ scripts'[j] = scripts[i]
  <1>1. scripts \in Seq(Running)
    BY DEF ServerInv, ServerOK
  <1>2. /\ Len(scripts') = Len(scripts) - 1
        /\ \A j \in 1..Len(scripts') : scripts'[j] = scripts[IF j < k THEN j ELSE j + 1]
    BY <1>1, WithoutEffect
  <1>3. \A j \in 1..Len(scripts') : /\ (IF j < k THEN j ELSE j + 1) \in 1..Len(scripts)
                                    /\ (IF j < k THEN j ELSE j + 1) # k
    BY <1>1, <1>2, LenProperties
  <1> QED
    BY <1>2, <1>3

(* Only one script is waited for.                                          *)
LEMMA Unwatched ==
    ASSUME ServerInv, NEW k \in Watched,
           \A j \in 1..Len(scripts') : \E i \in 1..Len(scripts) :
               i # k /\ scripts'[j] = scripts[i]
    PROVE  Watched' = {}
  <1> SUFFICES ASSUME NEW j \in Watched' PROVE FALSE
    OBVIOUS
  <1>1. PICK i \in 1..Len(scripts) : i # k /\ scripts'[j] = scripts[i]
    BY DEF Watched
  <1>2. i \in Watched
    BY <1>1 DEF Watched
  <1> QED
    BY <1>1, <1>2 DEF ServerInv, WatchTrue

LEMMA WithoutAcks ==
    ASSUME ServerInv, AcksInv, NEW k \in 1..Len(scripts), scripts' = Without(scripts, k),
           acked' = acked, enrolled' = enrolled, srv' = srv, tmp' = tmp
    PROVE  AcksInv'
  <1>1. Sole'
    BY WithoutSole DEF AcksInv
  <1>2. \A j \in 1..Len(scripts') : \E i \in 1..Len(scripts) : scripts'[j] = scripts[i]
    BY Others
  <1> QED
    BY <1>1, <1>2, FewerAcks

LEMMA SendAcks ==
    ASSUME ServerInv, FleetInv, AcksInv, SendCommand
    PROVE  AcksInv'
  <1> DEFINE new == [cmd |-> tool.cmd, arg |-> tool.arg, left |-> Script(tool.cmd),
                     watched |-> TRUE, failed |-> FALSE]
             n == Len(scripts) + 1
  <1>1. /\ tool.cmd \in AllCommands /\ ArgFits(tool.cmd, tool.arg) /\ Watched = {}
        /\ acked' = Forget(tool.cmd, tool.arg) /\ srv' = srv /\ enrolled' = enrolled
    BY DEF SendCommand, ServerInv, ToolTrue, WatchTrue
  <1>2. scripts' = Append(scripts, new)
    BY DEF SendCommand
  <1>3. new.cmd = tool.cmd /\ new.arg = tool.arg /\ new.left = Script(tool.cmd)
    OBVIOUS
  <1> HIDE DEF new
  <1>4. scripts \in Seq(Running) /\ Len(scripts) \in Nat /\ acked \in Acked
    BY LenProperties DEF ServerInv, ServerOK
  <1>5. \A k \in 1..Len(scripts') : \/ k \in 1..Len(scripts) /\ scripts'[k] = scripts[k]
                                    \/ k = n /\ scripts'[k] = new
    BY <1>2, <1>4
  <1> HIDE DEF n
  <1>6. Ran(new) = 0
    <2>1. Len(Script(tool.cmd)) \in Nat
      BY <1>1, ScriptTyped
    <2> QED
      BY <1>3, <2>1 DEF Ran
  <1>7. AloneInv'
    <2>1. DeployTrue(new, tmp', srv') /\ EnrollTrue(new, enrolled')
      BY <1>6 DEF DeployTrue, EnrollTrue
    <2>2. \A k \in Watched' : scripts'[k] = new
      BY <1>1, <1>5 DEF Watched
    <2> QED
      BY <2>1, <2>2 DEF AloneInv
  (* What it is about is known again when it succeeds, and its history is  *)
  (* clean if it begins alone.                                             *)
  <1>8. CASE tool.cmd = "deploy"
    <2>1. /\ acked'.binary = Unknown /\ acked'.cert = acked.cert /\ acked'.lists = acked.lists
          /\ acked'.deploys = \E k \in 1..Len(scripts) : Deploys(scripts[k])
      BY <1>1, <1>4, <1>8 DEF Forget, Acked
    <2>2. \A m : ~Lists(new, m)
      BY <1>3, <1>8 DEF Lists
    <2>3. OneDeploy'
      BY <1>5, <2>1 DEF OneDeploy
    <2>4. OneLister'
      BY <1>5, <2>1, <2>2 DEF AcksInv, Sole, OneLister
    <2>5. BinaryInv'
      BY <2>1 DEF BinaryInv
    <2>6. CertInv'
      BY <1>1, <1>5, <2>1, <2>2 DEF AcksInv, CertInv
    <2> QED
      BY <1>7, <2>3, <2>4, <2>5, <2>6 DEF AcksInv, Sole
  <1>9. CASE tool.cmd \in {"enroll", "revoke"}
    <2> DEFINE a == tool.arg[1]
    <2>1. /\ acked' = [acked EXCEPT !.cert[a] = Unknown,
                                    !.lists[a] = \E k \in 1..Len(scripts) : Lists(scripts[k], a)]
          /\ a \in Machines
      BY <1>1, <1>9 DEF Forget, ArgFits
    <2>2. ~Deploys(new) /\ \A m : Lists(new, m) => m = a
      BY <1>3, <1>9 DEF Deploys, Lists
    <2> HIDE DEF a
    <2>3. /\ acked'.binary = acked.binary /\ acked'.deploys = acked.deploys
          /\ acked'.cert[a] = Unknown
          /\ acked'.lists[a] = \E k \in 1..Len(scripts) : Lists(scripts[k], a)
          /\ \A m \in Machines : m # a => /\ acked'.cert[m] = acked.cert[m]
                                          /\ acked'.lists[m] = acked.lists[m]
      BY <1>4, <2>1 DEF Acked
    <2>4. OneDeploy'
      BY <1>5, <2>2, <2>3 DEF AcksInv, Sole, OneDeploy
    <2>5. OneLister'
      <3> SUFFICES ASSUME NEW m \in Machines, ~acked'.lists[m],
                          NEW j \in 1..Len(scripts'), NEW k \in 1..Len(scripts'),
                          Lists(scripts'[j], m), Lists(scripts'[k], m)
                   PROVE  j = k
        BY DEF OneLister
      <3>1. CASE m = a
        BY <1>5, <2>3, <3>1
      <3>2. CASE m # a
        BY <1>5, <2>2, <2>3, <3>2 DEF AcksInv, Sole, OneLister
      <3> QED
        BY <3>1, <3>2
    <2>6. BinaryInv'
      BY <1>1, <1>5, <2>2, <2>3 DEF AcksInv, BinaryInv
    <2>7. CertInv'
      <3> SUFFICES ASSUME NEW m \in Machines, acked'.cert[m] # Unknown, ~acked'.lists[m]
                   PROVE  /\ enrolled'[m] = acked'.cert[m]
                          /\ \A k \in 1..Len(scripts') : ~Lists(scripts'[k], m)
        BY DEF CertInv
      <3>1. m # a
        BY <2>3
      <3> QED
        BY <1>1, <1>5, <2>2, <2>3, <3>1 DEF AcksInv, CertInv
    <2> QED
      BY <1>7, <2>4, <2>5, <2>6, <2>7 DEF AcksInv, Sole
  <1>10. CASE tool.cmd \notin {"deploy", "enroll", "revoke"}
    <2>1. acked' = acked
      BY <1>1, <1>10 DEF Forget
    <2>2. ~Deploys(new) /\ \A m : ~Lists(new, m)
      BY <1>3, <1>10 DEF Deploys, Lists
    <2>3. OneDeploy'
      BY <1>5, <2>1, <2>2 DEF AcksInv, Sole, OneDeploy
    <2>4. OneLister'
      BY <1>5, <2>1, <2>2 DEF AcksInv, Sole, OneLister
    <2>5. BinaryInv' /\ CertInv'
      BY <1>1, <1>5, <2>1, <2>2 DEF AcksInv, BinaryInv, CertInv
    <2> QED
      BY <1>7, <2>3, <2>4, <2>5 DEF AcksInv, Sole
  <1> QED
    BY <1>8, <1>9, <1>10

(* A script has done all that the operator is told, unless another one     *)
(* about the same thing has run beside it.                                 *)
LEMMA SucceedsAcks ==
    ASSUME ServerInv, AcksInv, NEW k \in 1..Len(scripts), RemoteSucceeds(k)
    PROVE  AcksInv'
  <1> DEFINE x == scripts[k]
  <1>1. /\ k \in Watched /\ x.left = <<>> /\ ~x.failed /\ scripts' = Without(scripts, k)
        /\ srv' = srv /\ tmp' = tmp /\ enrolled' = enrolled
        /\ acked' = Learn(x.cmd, x.arg)
    BY DEF RemoteSucceeds
  <1>2. /\ x \in Running /\ ArgFits(x.cmd, x.arg) /\ acked \in Acked
        /\ ~acked.deploys => DeployTrue(x, tmp, srv)
        /\ \A m \in Machines : Lists(x, m) /\ ~acked.lists[m] => EnrollTrue(x, enrolled)
    BY <1>1, ScriptFacts DEF AcksInv, AloneInv, ScriptTrue, ServerInv, ServerOK
  <1>3. /\ x.cmd = "deploy" => Ran(x) = 4
        /\ x.cmd \in {"enroll", "revoke"} => Ran(x) = 2
    <2>1. Len(x.left) = 0
      BY <1>1
    <2> HIDE DEF x
    <2> QED
      BY <2>1, ScriptTable DEF Ran
  <1>4. \A j \in 1..Len(scripts') : \E i \in 1..Len(scripts) : i # k /\ scripts'[j] = scripts[i]
    BY <1>1, Others
  <1>5. acked'.deploys = acked.deploys /\ acked'.lists = acked.lists
    BY <1>1, <1>2 DEF Learn, Acked
  <1>6. Sole'
    BY <1>1, <1>5, WithoutSole DEF AcksInv
  <1>7. AloneInv'
    <2>1. Watched' = {}
      BY <1>1, <1>4, Unwatched
    <2> QED
      BY <2>1 DEF AloneInv
  <1>8. BinaryInv'
    <2> SUFFICES ASSUME acked'.binary # Unknown, ~acked.deploys
                 PROVE  /\ srv.installed = acked'.binary
                        /\ srv.running \in {None, acked'.binary}
                        /\ \A j \in 1..Len(scripts') : ~Deploys(scripts'[j])
      BY <1>1, <1>5 DEF BinaryInv
    <2>1. CASE x.cmd = "deploy"
      <3>1. acked'.binary = x.arg
        BY <1>1, <1>2, <2>1 DEF Learn, Acked
      <3>2. srv.installed = x.arg /\ srv.running \in {None, x.arg}
        BY <1>2, <1>3, <2>1 DEF DeployTrue
      <3>3. \A i \in 1..Len(scripts) : Deploys(scripts[i]) => i = k
        BY <2>1 DEF AcksInv, Sole, OneDeploy, Deploys
      <3> QED
        BY <1>4, <3>1, <3>2, <3>3
    <2>2. CASE x.cmd # "deploy"
      <3>1. acked'.binary = acked.binary
        BY <1>1, <1>2, <2>2 DEF Learn, Acked
      <3> QED
        BY <1>4, <3>1 DEF AcksInv, BinaryInv
    <2> QED
      BY <2>1, <2>2
  <1>9. CertInv'
    <2> SUFFICES ASSUME NEW m \in Machines, acked'.cert[m] # Unknown, ~acked.lists[m]
                 PROVE  /\ enrolled[m] = acked'.cert[m]
                        /\ \A j \in 1..Len(scripts') : ~Lists(scripts'[j], m)
      BY <1>1, <1>5 DEF CertInv
    <2>1. CASE Lists(x, m)
      <3>1. EnrollTrue(x, enrolled)
        BY <1>2, <2>1
      <3>2. \A i \in 1..Len(scripts) : Lists(scripts[i], m) => i = k
        BY <2>1 DEF AcksInv, Sole, OneLister
      <3> HIDE DEF x
      <3>3. /\ x.cmd \in {"enroll", "revoke"} /\ x.arg[1] = m
            /\ x.cmd = "enroll" => enrolled[m] = x.arg[2]
            /\ x.cmd = "revoke" => enrolled[m] = None
        BY <1>3, <2>1, <3>1 DEF Lists, EnrollTrue
      <3>4. /\ x.cmd = "enroll" => acked'.cert[m] = x.arg[2]
            /\ x.cmd = "revoke" => acked'.cert[m] = None
        BY <1>1, <1>2, <3>3 DEF Learn, Acked
      <3> QED
        BY <1>4, <3>2, <3>3, <3>4
    <2>2. CASE ~Lists(x, m)
      <3> HIDE DEF x
      <3>1. acked'.cert[m] = acked.cert[m]
        BY <1>1, <1>2, <2>2 DEF Learn, Acked, Lists
      <3> QED
        BY <1>4, <3>1 DEF AcksInv, CertInv
    <2> QED
      BY <2>1, <2>2
  <1> QED
    BY <1>6, <1>7, <1>8, <1>9 DEF AcksInv

(* What is next in script k.                                               *)
LEMMA LineOf ==
    ASSUME ServerInv, NEW k \in 1..Len(scripts), scripts[k].left # <<>>
    PROVE  LET x == scripts[k]
               l == Head(x.left)
           IN  /\ l = "fetch" <=> x.cmd = "deploy" /\ Ran(x) = 0
               /\ l = "install" <=> x.cmd = "deploy" /\ Ran(x) = 1
               /\ l = "unlink" <=> x.cmd = "deploy" /\ Ran(x) = 2
               /\ x.cmd = "deploy" /\ Ran(x) = 3 => l = "restart"
               /\ l = "insert" <=> x.cmd = "enroll" /\ Ran(x) = 0
               /\ l = "delete" <=> x.cmd = "revoke" /\ Ran(x) = 0
               /\ x.cmd = "deploy" => Ran(x) \in 0..3
  <1> DEFINE x == scripts[k]
             l == Head(x.left)
             n == Ran(x) + 1
  <1>1. /\ x.cmd \in AllCommands /\ n \in 1..Len(Script(x.cmd)) /\ l = Script(x.cmd)[n]
        /\ Ran(x) \in Nat
    <2>1. x.cmd \in AllCommands /\ Ran(x) \in 0..Len(Script(x.cmd))
      BY ScriptFacts DEF Running
    <2>2. n \in 1..Len(Script(x.cmd)) /\ l = Script(x.cmd)[n]
      BY NextLine
    <2>3. \A i, m : i \in 0..m => i \in Nat
      OBVIOUS
    <2> QED
      BY <2>1, <2>2, <2>3, Zenon
  <1>2. x.cmd = "deploy" => Len(Script(x.cmd)) = 4
    BY ScriptTable
  <1>3. \A r \in Nat : /\ r + 1 = 1 <=> r = 0
                       /\ r + 1 = 2 <=> r = 1
                       /\ r + 1 = 3 <=> r = 2
                       /\ r + 1 = 4 <=> r = 3
                       /\ r + 1 \in 1..4 => r \in 0..3
    OBVIOUS
  <1>4. /\ n = 1 <=> Ran(x) = 0
        /\ n = 2 <=> Ran(x) = 1
        /\ n = 3 <=> Ran(x) = 2
        /\ n = 4 <=> Ran(x) = 3
        /\ n \in 1..4 => Ran(x) \in 0..3
    BY <1>1, <1>3
  <1> HIDE DEF x, l, n
  <1>5. /\ l = "fetch" <=> x.cmd = "deploy" /\ n = 1
        /\ l = "install" <=> x.cmd = "deploy" /\ n = 2
        /\ l = "unlink" <=> x.cmd = "deploy" /\ n = 3
        /\ x.cmd = "deploy" /\ n = 4 => l = "restart"
        /\ l = "insert" <=> x.cmd = "enroll" /\ n = 1
        /\ l = "delete" <=> x.cmd = "revoke" /\ n = 1
    BY <1>1, LinePlaces
  <1>6. x.cmd = "deploy" => n \in 1..4
    BY <1>1, <1>2
  <1>7. /\ l = "fetch" <=> x.cmd = "deploy" /\ Ran(x) = 0
        /\ l = "install" <=> x.cmd = "deploy" /\ Ran(x) = 1
        /\ l = "unlink" <=> x.cmd = "deploy" /\ Ran(x) = 2
        /\ x.cmd = "deploy" /\ Ran(x) = 3 => l = "restart"
        /\ l = "insert" <=> x.cmd = "enroll" /\ Ran(x) = 0
        /\ l = "delete" <=> x.cmd = "revoke" /\ Ran(x) = 0
    BY <1>4, <1>5
  <1>8. x.cmd = "deploy" => Ran(x) \in 0..3
    BY <1>4, <1>6
  <1> QED
    BY <1>7, <1>8 DEF x, l

(* What the next line of a script does to what the script has achieved.    *)
LEMMA LineAchieves ==
    ASSUME ServerInv, NEW k \in 1..Len(scripts), ScriptLine(k),
           NEW y, y.cmd = scripts[k].cmd, y.arg = scripts[k].arg, Ran(y) = Ran(scripts[k]) + 1
    PROVE  /\ DeployTrue(scripts[k], tmp, srv) => DeployTrue(y, tmp', srv')
           /\ EnrollTrue(scripts[k], enrolled) => EnrollTrue(y, enrolled')
  <1> DEFINE x == scripts[k]
             l == Head(x.left)
  <1>1. /\ x.left # <<>> /\ CanRun(l) /\ srv' = Serving(l) /\ enrolled' = Enrolled(l, x.arg)
        /\ tmp' = CASE l = "fetch" -> x.arg [] l = "unlink" -> None [] OTHER -> tmp
    BY DEF ScriptLine
  <1>2. /\ l = "fetch" <=> x.cmd = "deploy" /\ Ran(x) = 0
        /\ l = "install" <=> x.cmd = "deploy" /\ Ran(x) = 1
        /\ l = "unlink" <=> x.cmd = "deploy" /\ Ran(x) = 2
        /\ x.cmd = "deploy" /\ Ran(x) = 3 => l = "restart"
        /\ l = "insert" <=> x.cmd = "enroll" /\ Ran(x) = 0
        /\ l = "delete" <=> x.cmd = "revoke" /\ Ran(x) = 0
        /\ x.cmd = "deploy" => Ran(x) \in 0..3
    BY <1>1, LineOf
  <1>3. /\ Ran(x) \in Nat /\ ArgFits(x.cmd, x.arg) /\ srv \in Server
        /\ enrolled \in [Machines -> Certs \cup {None}]
    BY ScriptFacts DEF ScriptTrue, ServerInv, ServerOK
  <1> HIDE DEF x, l
  <1>5. y.cmd = x.cmd /\ y.arg = x.arg /\ Ran(y) = Ran(x) + 1
    BY DEF x
  <1>6. ASSUME DeployTrue(x, tmp, srv) PROVE DeployTrue(y, tmp', srv')
    <2> SUFFICES ASSUME x.cmd = "deploy" PROVE DeployTrue(y, tmp', srv')
      BY <1>5 DEF DeployTrue
    <2>1. CASE Ran(x) = 0
      <3>1. tmp' = x.arg /\ Ran(y) = 1
        BY <1>1, <1>2, <1>5, <2>1
      <3> QED
        BY <1>5, <3>1 DEF DeployTrue
    <2>2. CASE Ran(x) = 1
      <3>1. l = "install" /\ Ran(y) = 2 /\ tmp = x.arg
        BY <1>2, <1>5, <1>6, <2>2 DEF DeployTrue
      <3>2. tmp' = tmp
        BY <1>1, <3>1
      <3>3. srv'.installed = tmp
        BY <1>1, <1>3, <3>1 DEF Serving, Installs, Server
      <3> QED
        BY <1>5, <3>1, <3>2, <3>3 DEF DeployTrue
    <2>3. CASE Ran(x) = 2
      <3>1. l = "unlink" /\ Ran(y) = 3 /\ srv.installed = x.arg
        BY <1>2, <1>5, <1>6, <2>3 DEF DeployTrue
      <3>2. srv' = srv
        BY <1>1, <3>1 DEF Serving
      <3> QED
        BY <1>5, <3>1, <3>2 DEF DeployTrue
    <2>4. CASE Ran(x) = 3
      <3>1. l = "restart" /\ Ran(y) = 4 /\ srv.installed = x.arg
        BY <1>2, <1>5, <1>6, <2>4 DEF DeployTrue
      <3>2. srv' = Started(srv)
        BY <1>1, <3>1 DEF Serving
      <3>3. srv'.installed = x.arg /\ srv'.running \in {None, x.arg}
        BY <1>3, <3>1, <3>2, StartedRuns
      <3> QED
        BY <1>5, <3>1, <3>3 DEF DeployTrue
    <2> QED
      BY <1>2, <2>1, <2>2, <2>3, <2>4
  <1>7. ASSUME EnrollTrue(x, enrolled) PROVE EnrollTrue(y, enrolled')
    <2> SUFFICES ASSUME x.cmd \in {"enroll", "revoke"} PROVE EnrollTrue(y, enrolled')
      BY <1>5 DEF EnrollTrue
    <2>1. x.arg[1] \in Machines
      BY <1>3 DEF ArgFits
    <2>2. CASE Ran(x) = 0
      <3>1. (x.cmd = "enroll" => l = "insert") /\ (x.cmd = "revoke" => l = "delete")
        BY <1>2, <2>2
      <3> QED
        BY <1>1, <1>3, <1>5, <2>1, <3>1 DEF Enrolled, EnrollTrue
    <2>3. CASE Ran(x) # 0
      <3>1. Ran(x) >= 1 /\ l \notin {"insert", "delete"}
        BY <1>2, <1>3, <2>3
      <3>2. enrolled' = enrolled
        BY <1>1, <3>1 DEF Enrolled
      <3> QED
        BY <1>5, <1>7, <3>1, <3>2 DEF EnrollTrue
    <2> QED
      BY <2>2, <2>3
  <1> QED
    BY <1>6, <1>7 DEF x

LEMMA ServingRuns ==
    ASSUME srv \in Server, srv.running \in {None, srv.installed}, NEW l, l # "install"
    PROVE  Serving(l).installed = srv.installed /\ Serving(l).running \in {None, srv.installed}
  <1>1. CASE l = "stop"
    BY <1>1 DEF Serving, Server
  <1>2. CASE l \in {"start", "restart"}
    BY <1>2, StartedRuns DEF Serving
  <1>3. CASE l \notin {"stop", "start", "restart"}
    BY <1>3 DEF Serving
  <1> QED
    BY <1>1, <1>2, <1>3

(* No line but install changes the installed build.                        *)
LEMMA ServingKeeps ==
    ASSUME srv \in Server, NEW l, l # "install"
    PROVE  Serving(l).installed = srv.installed
  <1>1. CASE l = "stop"
    BY <1>1 DEF Serving, Server
  <1>2. CASE l \in {"start", "restart"}
    BY <1>2, StartedRuns DEF Serving
  <1>3. CASE l \notin {"stop", "start", "restart"}
    BY <1>3 DEF Serving
  <1> QED
    BY <1>1, <1>2, <1>3

(* What a line of another script leaves of what a deploy has achieved.     *)
LEMMA LineSparesDeploy ==
    ASSUME ServerInv, NEW k \in 1..Len(scripts), ScriptLine(k), ~Deploys(scripts[k]),
           NEW z, Ran(z) \in Nat, DeployTrue(z, tmp, srv)
    PROVE  DeployTrue(z, tmp', srv')
  <1> DEFINE x == scripts[k]
             l == Head(x.left)
  <1>1. /\ x.left # <<>> /\ srv' = Serving(l)
        /\ tmp' = CASE l = "fetch" -> x.arg [] l = "unlink" -> None [] OTHER -> tmp
    BY DEF ScriptLine
  <1>2. l \notin {"fetch", "install", "unlink"}
    BY <1>1, LineOf DEF Deploys
  <1>3. srv \in Server
    BY DEF ServerInv, ServerOK
  <1> HIDE DEF x, l
  <1>4. tmp' = tmp /\ srv'.installed = srv.installed
    BY <1>1, <1>2, <1>3, ServingKeeps
  <1>5. srv.running \in {None, srv.installed} => srv'.running \in {None, srv.installed}
    BY <1>1, <1>2, <1>3, ServingRuns
  <1> QED
    BY <1>4, <1>5 DEF DeployTrue

LEMMA LineSparesEnroll ==
    ASSUME ServerInv, NEW k \in 1..Len(scripts), ScriptLine(k),
           NEW m \in Machines, ~Lists(scripts[k], m)
    PROVE  enrolled'[m] = enrolled[m]
  <1> DEFINE x == scripts[k]
             l == Head(x.left)
  <1>1. x.left # <<>> /\ enrolled' = Enrolled(l, x.arg)
    BY DEF ScriptLine
  <1>2. /\ l = "insert" => x.cmd = "enroll"
        /\ l = "delete" => x.cmd = "revoke"
    BY <1>1, LineOf
  <1>3. l \in {"insert", "delete"} => x.arg[1] # m
    BY <1>2 DEF Lists
  <1>4. enrolled \in [Machines -> Certs \cup {None}]
    BY DEF ServerInv, ServerOK
  <1> QED
    BY <1>1, <1>3, <1>4 DEF Enrolled

LEMMA LineAcks ==
    ASSUME ServerInv, AcksInv, NEW k \in 1..Len(scripts), ScriptLine(k)
    PROVE  AcksInv'
  <1> DEFINE x == scripts[k]
             l == Head(x.left)
             y == [x EXCEPT !.left = Tail(x.left)]
  <1>1. /\ x.left # <<>> /\ CanRun(l) /\ srv' = Serving(l) /\ enrolled' = Enrolled(l, x.arg)
        /\ acked' = acked /\ disk \subseteq disk'
        /\ scripts' = IF Tail(x.left) = <<>> /\ ~x.watched THEN Without(scripts, k)
                      ELSE [scripts EXCEPT ![k].left = Tail(@)]
    BY DEF ScriptLine
  <1>2. l = "install" => x.cmd = "deploy"
    BY <1>1, LineOf
  <1>3. /\ y \in Running /\ Ran(y) = Ran(x) + 1 /\ y.cmd = x.cmd /\ y.arg = x.arg
        /\ y.watched = x.watched /\ y.failed = x.failed
    BY <1>1, AdvancedScript
  <1>4. scripts \in Seq(Running) /\ srv \in Server
    BY DEF ServerInv, ServerOK
  <1>5. [scripts EXCEPT ![k].left = Tail(@)] = [scripts EXCEPT ![k] = y]
    OBVIOUS
  <1> HIDE DEF y
  (* What each script is afterwards.                                       *)
  <1>6. \A j \in 1..Len(scripts') :
            \/ j = k /\ scripts'[j] = y
            \/ \E i \in 1..Len(scripts) : i # k /\ scripts'[j] = scripts[i]
    <2>1. CASE scripts' = Without(scripts, k)
      BY <2>1, Others
    <2>2. CASE scripts' = [scripts EXCEPT ![k] = y]
      BY <1>3, <1>4, <2>2, ExceptSeq
    <2> QED
      BY <1>1, <1>5, <2>1, <2>2
  <1>7. Sole'
    <2>1. CASE scripts' = Without(scripts, k)
      BY <1>1, <2>1, WithoutSole DEF AcksInv
    <2>2. CASE scripts' = [scripts EXCEPT ![k] = y]
      <3>1. /\ Len(scripts') = Len(scripts)
            /\ \A j \in 1..Len(scripts) : scripts'[j] = IF j = k THEN y ELSE scripts[j]
        BY <1>3, <1>4, <2>2, ExceptSeq
      <3> QED
        BY <1>1, <1>3, <3>1, SameSole DEF AcksInv
    <2> QED
      BY <1>1, <1>5, <2>1, <2>2
  <1>8. BinaryInv'
    <2> SUFFICES ASSUME acked.binary # Unknown, ~acked.deploys
                 PROVE  /\ srv'.installed = acked.binary
                        /\ srv'.running \in {None, acked.binary}
                        /\ \A j \in 1..Len(scripts') : ~Deploys(scripts'[j])
      BY <1>1 DEF BinaryInv
    <2>1. /\ srv.installed = acked.binary /\ srv.running \in {None, acked.binary}
          /\ \A i \in 1..Len(scripts) : ~Deploys(scripts[i])
      BY DEF AcksInv, BinaryInv
    <2>2. l # "install"
      BY <1>2, <2>1 DEF Deploys
    <2>3. srv'.installed = srv.installed /\ srv'.running \in {None, srv.installed}
      BY <1>1, <1>4, <2>1, <2>2, ServingRuns
    <2>4. ~Deploys(y)
      BY <1>3, <2>1 DEF Deploys
    <2> QED
      BY <1>6, <2>1, <2>3, <2>4
  <1>9. CertInv'
    <2> SUFFICES ASSUME NEW m \in Machines, acked.cert[m] # Unknown, ~acked.lists[m]
                 PROVE  /\ enrolled'[m] = acked.cert[m]
                        /\ \A j \in 1..Len(scripts') : ~Lists(scripts'[j], m)
      BY <1>1 DEF CertInv
    <2>1. /\ enrolled[m] = acked.cert[m]
          /\ \A i \in 1..Len(scripts) : ~Lists(scripts[i], m)
      BY DEF AcksInv, CertInv
    <2>2. enrolled'[m] = enrolled[m]
      BY <2>1, LineSparesEnroll
    <2>3. ~Lists(y, m)
      BY <1>3, <2>1 DEF Lists
    <2> QED
      BY <1>6, <2>1, <2>2, <2>3
  <1>10. AloneInv'
    <2> SUFFICES ASSUME NEW j \in Watched', ~scripts'[j].failed
                 PROVE  /\ ~acked.deploys => DeployTrue(scripts'[j], tmp', srv')
                        /\ \A m \in Machines : Lists(scripts'[j], m) /\ ~acked.lists[m]
                                               => EnrollTrue(scripts'[j], enrolled')
      BY <1>1 DEF AloneInv
    <2>1. j \in 1..Len(scripts') /\ scripts'[j].watched
      BY DEF Watched
    <2>2. CASE scripts'[j] = y
      <3>1. k \in Watched /\ ~x.failed
        BY <1>3, <2>1, <2>2 DEF Watched
      <3>2. /\ ~acked.deploys => DeployTrue(x, tmp, srv)
            /\ \A m \in Machines : Lists(x, m) /\ ~acked.lists[m] => EnrollTrue(x, enrolled)
        BY <3>1 DEF AcksInv, AloneInv
      <3>3. /\ DeployTrue(x, tmp, srv) => DeployTrue(y, tmp', srv')
            /\ EnrollTrue(x, enrolled) => EnrollTrue(y, enrolled')
        BY <1>3, LineAchieves
      <3>4. \A m : Lists(y, m) => Lists(x, m)
        BY <1>3 DEF Lists
      <3> QED
        BY <2>2, <3>2, <3>3, <3>4
    <2>3. ASSUME NEW i \in 1..Len(scripts), i # k, scripts'[j] = scripts[i]
          PROVE  /\ ~acked.deploys => DeployTrue(scripts'[j], tmp', srv')
                 /\ \A m \in Machines : Lists(scripts'[j], m) /\ ~acked.lists[m]
                                        => EnrollTrue(scripts'[j], enrolled')
      <3> DEFINE z == scripts[i]
      <3>1. i \in Watched /\ ~z.failed /\ Ran(z) \in Nat
        BY <2>1, <2>3, ScriptFacts DEF Watched
      <3>2. /\ ~acked.deploys => DeployTrue(z, tmp, srv)
            /\ \A m \in Machines : Lists(z, m) /\ ~acked.lists[m] => EnrollTrue(z, enrolled)
        BY <3>1 DEF AcksInv, AloneInv
      <3>3. ~acked.deploys => ~(Deploys(z) /\ Deploys(x))
        BY <2>3 DEF AcksInv, Sole, OneDeploy
      <3>4. \A m \in Machines : ~acked.lists[m] => ~(Lists(z, m) /\ Lists(x, m))
        BY <2>3 DEF AcksInv, Sole, OneLister
      <3> HIDE DEF z
      <3>5. ASSUME ~acked.deploys PROVE DeployTrue(z, tmp', srv')
        <4>1. CASE Deploys(z)
          BY <3>1, <3>2, <3>3, <3>5, <4>1, LineSparesDeploy
        <4>2. CASE ~Deploys(z)
          BY <4>2 DEF DeployTrue, Deploys
        <4> QED
          BY <4>1, <4>2
      <3>6. ASSUME NEW m \in Machines, Lists(z, m), ~acked.lists[m]
            PROVE  EnrollTrue(z, enrolled')
        <4>1. enrolled'[m] = enrolled[m]
          BY <3>4, <3>6, LineSparesEnroll
        <4>2. z.arg[1] = m
          BY <3>6 DEF Lists
        <4> QED
          BY <3>2, <3>6, <4>1, <4>2 DEF EnrollTrue
      <3> QED
        BY <2>3, <3>5, <3>6 DEF z
    <2> QED
      BY <1>6, <2>1, <2>2, <2>3
  <1> QED
    BY <1>7, <1>8, <1>9, <1>10 DEF AcksInv

LEMMA FailedLineAcks ==
    ASSUME ServerInv, AcksInv, NEW k \in 1..Len(scripts), ScriptFails(k)
    PROVE  AcksInv'
  <1> DEFINE x == scripts[k]
             y == [x EXCEPT !.left = <<>>, !.failed = TRUE]
  <1>1. /\ UNCHANGED <<tmp, srv, enrolled, acked>>
        /\ \/ scripts' = Without(scripts, k)
           \/ scripts' = [scripts EXCEPT ![k].left = <<>>, ![k].failed = TRUE]
    BY DEF ScriptFails
  <1>2. scripts \in Seq(Running) /\ x \in Running
    BY ScriptFacts DEF ServerInv, ServerOK
  <1>3. CASE scripts' = Without(scripts, k)
    BY <1>1, <1>3, WithoutAcks
  <1>4. CASE scripts' = [scripts EXCEPT ![k].left = <<>>, ![k].failed = TRUE]
    <2>1. scripts' = [scripts EXCEPT ![k] = y]
      BY <1>2, <1>4 DEF Running
    <2>2. y.cmd = x.cmd /\ y.arg = x.arg /\ y.failed
      BY <1>2 DEF Running
    <2> HIDE DEF y
    <2>3. /\ Len(scripts') = Len(scripts)
          /\ \A j \in 1..Len(scripts) : scripts'[j] = IF j = k THEN y ELSE scripts[j]
      BY <1>2, <2>1
    <2>4. \A j \in 1..Len(scripts') : \E i \in 1..Len(scripts) :
               /\ scripts'[j].cmd = scripts[i].cmd /\ scripts'[j].arg = scripts[i].arg
               /\ \/ scripts'[j] = scripts[i]
                  \/ scripts'[j].failed \/ ~scripts'[j].watched
      BY <2>2, <2>3
    <2>5. Sole'
      BY <1>1, <2>2, <2>3, SameSole DEF AcksInv
    <2> QED
      BY <1>1, <2>4, <2>5, FewerAcks
  <1> QED
    BY <1>1, <1>3, <1>4

LEMMA UnwatchAcks ==
    ASSUME ServerInv, AcksInv, Unwatch, UNCHANGED <<tmp, srv, enrolled, acked>>
    PROVE  AcksInv'
  <1>1. scripts \in Seq(Running) /\ Len(scripts) \in Nat
    BY LenProperties DEF ServerInv, ServerOK
  <1>2. /\ Len(scripts') = Len(scripts)
        /\ \A k \in 1..Len(scripts) : scripts'[k] = [scripts[k] EXCEPT !.watched = FALSE]
    BY <1>1 DEF Unwatch
  <1>3. ASSUME NEW k \in 1..Len(scripts)
        PROVE  /\ scripts'[k].cmd = scripts[k].cmd /\ scripts'[k].arg = scripts[k].arg
               /\ ~scripts'[k].watched
    BY <1>2, ScriptFacts DEF Running
  <1>4. Sole'
    BY <1>2, <1>3, SameSole DEF AcksInv
  <1> QED
    BY <1>2, <1>3, <1>4, FewerAcks

(* A boot starts the installed build.                                      *)
LEMMA BootAcks ==
    ASSUME ServerInv, AcksInv, Boot
    PROVE  AcksInv'
  <1>1. srv'.installed = srv.installed /\ srv'.running \in {None, srv.installed}
    BY StartedRuns DEF Boot, Server, ServerInv, ServerOK
  <1> QED
    BY <1>1, PowerAcks DEF Boot

LEMMA PowerOffAcks ==
    ASSUME ServerInv, AcksInv, PowerOff
    PROVE  AcksInv'
  <1>1. srv'.installed = srv.installed /\ srv'.running = None
    BY DEF PowerOff, Server, ServerInv, ServerOK
  <1> QED
    BY <1>1, PowerAcks DEF PowerOff

LEMMA NothingAckedHolds ==
    ASSUME acked = NothingAcked, scripts = <<>>
    PROVE  AcksInv
  <1>1. Len(scripts) = 0 /\ Watched = {}
    BY DEF Watched
  <1> QED
    BY <1>1 DEF AcksInv, Sole, OneDeploy, OneLister, BinaryInv, CertInv, AloneInv, NothingAcked

LEMMA NextAcks == FleetInv /\ ServerInv /\ AcksInv /\ [Next]_vars => AcksInv'
  <1> SUFFICES ASSUME FleetInv, ServerInv, AcksInv, [Next]_vars PROVE AcksInv'
    OBVIOUS
  <1>1. ASSUME UNCHANGED vmVars PROVE AcksInv'
    BY <1>1 DEF vmVars, AcksInv, Sole, OneDeploy, OneLister, BinaryInv, CertInv, AloneInv, Watched
  <1>2. CASE ManageVm
    <2>1. FreshDisk => AcksInv'
      <3> SUFFICES ASSUME FreshDisk PROVE AcksInv'
        OBVIOUS
      <3>1. Len(scripts') = 0 /\ Watched' = {} /\ acked' = NothingAcked
        BY DEF FreshDisk, Watched
      <3> QED
        BY <3>1 DEF AcksInv, Sole, OneDeploy, OneLister, BinaryInv, CertInv, AloneInv,
                    NothingAcked
    <2> QED
      BY <1>1, <1>2, <2>1, BootAcks, PowerOffAcks DEF ManageVm
  <1>3. CASE ManageServer
    <2>1. ASSUME NEW cmd \in Commands, NEW arg \in Args(cmd), RemoteBegins(cmd, arg)
          PROVE  AcksInv'
      BY <1>1, <2>1 DEF RemoteBegins
    <2>2. CASE AgentOffline
      BY <1>1, <2>2 DEF AgentOffline
    <2>3. CASE RemoteFails
      <3>1. UNCHANGED <<tmp, srv, enrolled, acked, disk>>
        BY <2>3 DEF RemoteFails
      <3>2. CASE scripts' = scripts
        BY <1>1, <3>1, <3>2 DEF vmVars
      <3>3. ASSUME NEW k \in Watched, scripts' = Without(scripts, k) PROVE AcksInv'
        BY <3>1, <3>3, WithoutAcks DEF Watched
      <3> QED
        BY <2>3, <3>2, <3>3 DEF RemoteFails
    <2> QED
      BY <1>3, <2>1, <2>2, <2>3, SendAcks, SucceedsAcks DEF ManageServer
  <1>4. CASE RestartOnFailure
    <2>1. srv'.installed = srv.installed /\ srv'.running \in {None, srv.installed}
      BY <1>4, StartedRuns DEF RestartOnFailure, ServerInv, ServerOK
    <2>2. UNCHANGED <<tmp, enrolled, acked, scripts>> /\ Watched' = Watched
      BY <1>4 DEF RestartOnFailure, Watched
    <2>3. Sole' /\ BinaryInv' /\ CertInv'
      BY <2>1, <2>2 DEF AcksInv, Sole, OneDeploy, OneLister, BinaryInv, CertInv
    <2>4. ASSUME NEW k \in Watched, ~scripts[k].failed, ~acked.deploys
          PROVE  DeployTrue(scripts[k], tmp, srv')
      <3> DEFINE x == scripts[k]
      <3>1. DeployTrue(x, tmp, srv)
        BY <2>4 DEF AcksInv, AloneInv
      <3>2. Ran(x) \in Nat
        <4>1. k \in 1..Len(scripts)
          BY <2>4 DEF Watched
        <4> QED
          BY <4>1, ScriptFacts
      <3> HIDE DEF x
      <3>3. DeployTrue(x, tmp, srv')
        BY <2>1, <3>1, <3>2 DEF DeployTrue
      <3> QED
        BY <3>3 DEF x
    <2>5. AloneInv'
      BY <2>2, <2>4 DEF AcksInv, AloneInv
    <2> QED
      BY <2>3, <2>5 DEF AcksInv
  <1>5. CASE VmRuns
    BY <1>4, <1>5, LineAcks, FailedLineAcks DEF VmRuns, LineCannot
  <1>6. CASE Fault
    BY <1>6, UnwatchAcks, FailedLineAcks, BootAcks DEF Fault
  <1>7. CASE UNCHANGED vars
    BY <1>1, <1>7 DEF vars
  <1> QED
    BY <1>2, <1>3, <1>5, <1>6, <1>7 DEF Next

(***************************************************************************)
(* What the operator was told stays true until the next command about it   *)
(* (_deploy, _enroll_remote): the build that runs is the one that was      *)
(* deployed, an enrolled laptop is in and a revoked one is out, whatever   *)
(* scripts outlive their command, fail half way, or die with the VM.       *)
(* Excepted is what he was told of a script that began while another one   *)
(* about the same thing still ran.                                         *)
(***************************************************************************)
THEOREM AcknowledgedStays == Spec => []AcksHold
  <1>1. AcksInv => AcksHold
    BY DEF AcksInv, BinaryInv, CertInv, AcksHold
  <1>2. Init => AcksInv
    BY NothingAckedHolds DEF Init, VmInit
  <1> QED
    BY <1>1, <1>2, InitHolds, StepHolds, InitServer, NextServer, NextAcks, PTL DEF Spec
=============================================================================
