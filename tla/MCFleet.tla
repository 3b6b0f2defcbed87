------------------------------ MODULE MCFleet -------------------------------
(***************************************************************************)
(* VMs one after the other, builds for both architectures, and one         *)
(* laptop, enrolled with a first and with a newer certificate.             *)
(***************************************************************************)
EXTENDS FleetProps

CONSTANTS arm, x86, cert, newer

MCArchOf == [b \in Binaries |-> IF b = arm THEN "arm64" ELSE "x86_64"]

(* A second VM, whose disk is as empty as the first one's was, is left to  *)
(* manage_vm: what is installed there shows nothing new.                   *)
SecondIsBare ==
    \A v \in Vms \ {1} : v \in Live => scripts = <<>> /\ tool.cmd \notin Commands
=============================================================================
