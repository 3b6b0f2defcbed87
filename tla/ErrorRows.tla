------------------------------ MODULE ErrorRows ------------------------------
(***************************************************************************)
(* The mover_errors table: one row per failing operation and target.  The  *)
(* table is a value, a function from keys <<operation, target>> to rows;   *)
(* a key without a row has NoRow.  snapshot_mover.py and sync_client.py    *)
(* write rows, the agent's escalation notifies the user of them.           *)
(*                                                                         *)
(* Abstracted: messages and the two times of a row; `attempts' is counted  *)
(* up to the notification threshold.                                       *)
(***************************************************************************)
EXTENDS Integers

CONSTANT Threshold      \* BVL_MOVER_ERROR_THRESHOLD

ASSUME ThresholdAssumption == Threshold \in Nat \ {0}

ErrorRow == [attempts : 0..Threshold, immediate : BOOLEAN, notified : BOOLEAN]
NoRow == [attempts |-> 0, immediate |-> FALSE, notified |-> FALSE]

HasError(errs, k) == errs[k].attempts > 0

(* Operations that no later run of the same code would try again.          *)
SingleShot == {"top_level", "rewrite_manifest", "invalid_filename",
               "orphan_file", "manifest_invalid"}

(* `broken': a full or read-only disk, or a corrupt database.              *)
IsImmediate(op, broken) == op \in SingleShot \/ broken

(* Mutant of RecordError: the upsert writes the whole row.                 *)
RecordAfresh(errs, k, immediate) ==
    [errs EXCEPT ![k] = [attempts  |-> 1,
                         immediate |-> immediate,
                         notified  |-> FALSE]]

(* The upsert keeps `notified' and never takes `immediate' back.           *)
RecordError(errs, k, immediate) ==
    [errs EXCEPT ![k] = [attempts  |-> IF @.attempts < Threshold
                                       THEN @.attempts + 1 ELSE Threshold,
                         immediate |-> @.immediate \/ immediate,
                         notified  |-> @.notified]]

ClearError(errs, k) == [errs EXCEPT ![k] = NoRow]

(* The rows of `op' for targets of the directory that are no longer stray. *)
ReconcileDirScoped(errs, op, targets, strays) ==
    [k \in DOMAIN errs |->
        IF k[1] = op /\ k[2] \in targets \ strays THEN NoRow ELSE errs[k]]

(* What escalate selects.                                                  *)
Due(row) ==
    /\ row.attempts > 0
    /\ ~row.notified
    /\ row.immediate \/ row.attempts >= Threshold
=============================================================================
