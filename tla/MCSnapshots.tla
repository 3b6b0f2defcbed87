---------------------------- MODULE MCSnapshots -----------------------------
(***************************************************************************)
(* Two snapshots of the first day, and one day more to move stragglers in. *)
(***************************************************************************)
EXTENDS SnapshotProps

CONSTANTS fileA, fileB, hostA

MCDayOf == [f \in Files |-> 1]
=============================================================================
