------------------------------- MODULE DbDiff --------------------------------
(***************************************************************************)
(* db_diff.py run on the visits table (--tables visits): how the rows of   *)
(* two databases differ.  The operator compares a laptop's database with a *)
(* snapshot of the VM's.                                                   *)
(*                                                                         *)
(* Without --tables the tool compares the event tables and snapshots too.  *)
(* They are left out because they never agree once a page has been read:   *)
(* only the host writes the directory of an event and the row of a day.    *)
(* So a difference found here is one that the tool always reports, and the *)
(* absence of one says nothing of a run over all tables.                   *)
(*                                                                         *)
(* Abstracted: the checks that both files have the table and the same      *)
(* columns.  The title is written once, with the timestamp and by the same *)
(* INSERT, and stands or falls with it.                                    *)
(***************************************************************************)
EXTENDS VisitDb

Keys(db) == {u \in Urls : HasRow(db, u)}

(* The columns of visits that are not part of the key.                     *)
ValueColumns == {"timestamp", "of_interest"} \cup Tags

CounterColumns == Tags

Cell(db, u, col) ==
    CASE col = "timestamp" -> db.visits[u]
      [] col = "of_interest" -> u \in db.interest
      [] OTHER -> db.count[col][u]

PresenceDiff(a, b) == (Keys(a) \ Keys(b)) \cup (Keys(b) \ Keys(a))

ValueDiff(a, b, ignored) ==
    {u \in Keys(a) \cap Keys(b) :
        \E col \in ValueColumns \ ignored : Cell(a, u, col) # Cell(b, u, col)}

AnyDifference(a, b, ignored) ==
    PresenceDiff(a, b) # {} \/ ValueDiff(a, b, ignored) # {}
=============================================================================
