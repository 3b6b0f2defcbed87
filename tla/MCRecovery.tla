----------------------------- MODULE MCRecovery -----------------------------
(***************************************************************************)
(* A page is read on the first day and, where the configuration has two    *)
(* invocations, visited again on the second.                               *)
(***************************************************************************)
EXTENDS RebuildProps, TLC

CONSTANTS page, first, again

BothMsg == (first :> [kind |-> "read", url |-> page, ts |-> 1, also |-> FALSE])
              @@ (again :> [kind |-> "visit", url |-> page, ts |-> 2, also |-> FALSE])
MCMsg == [i \in Invs |-> BothMsg[i]]
MCDayOf == [i \in Invs |-> IF i = first THEN 1 ELSE 2]

DefaultOptions == {[truncate |-> TRUE, log |-> TRUE, rehydrate |-> TRUE]}
OtherOptions == {[truncate |-> FALSE, log |-> TRUE, rehydrate |-> FALSE],
                 [truncate |-> FALSE, log |-> FALSE, rehydrate |-> TRUE]}
MCOptions == DefaultOptions \cup OtherOptions

(***************************************************************************)
(* Two scenarios in one run.  In the first both invocations come.  In the  *)
(* second the page is not visited again; it is as if that invocation had   *)
(* ended before the behaviour begins.                                      *)
(***************************************************************************)
OnlyFirst ==
    /\ SealInit
    /\ host = [i \in Invs |-> IF i = again THEN "over" ELSE "new"]
    /\ written = {} /\ stored = {}
    /\ deleted = {} /\ resealed = {} /\ copied = {}
    /\ torn = FALSE /\ lossy = FALSE /\ stale = FALSE
    /\ reb = IdleReb
    /\ faults = 0

MCSpec == (Init \/ OnlyFirst) /\ [][Next]_vars

InOnlyFirst == host[again] = "over" /\ \A l \in written : l.id # again

DefaultRebuild ==
    reb.pc = "idle" /\ reb'.pc # "idle" => reb'.pc = "drop" /\ reb'.log /\ reb'.rehydrate

(* A manifest that goes while only the user acts.                          *)
NotTheUser == UNCHANGED <<host, sealer, reb>> => UNCHANGED deleted

(* The second scenario has the user, or rebuilds with other options than   *)
(* the default; the first has neither, and no failure while the snapshot   *)
(* is being archived, which the second has.                                *)
Scenarios ==
    IF InOnlyFirst
    THEN deleted = {} \/ DefaultRebuild
    ELSE /\ DefaultRebuild
         /\ NotTheUser
         /\ host[first] \in Archiving => UNCHANGED faults
=============================================================================
