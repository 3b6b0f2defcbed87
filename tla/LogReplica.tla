----------------------------- MODULE LogReplica ------------------------------
(***************************************************************************)
(* What multi-laptop sync mode promises about the logs, with neither RPCs  *)
(* nor transactions nor failures: every machine writes its own per-day     *)
(* logs, the server stores longer and longer beginnings of them, and a     *)
(* machine's cursors move forward over what is stored.  Nothing is ever    *)
(* written behind a cursor: it would reach nobody.                         *)
(***************************************************************************)
EXTENDS Integers, Sequences

CONSTANTS
    Machines,
    Dates,
    Lines

VARIABLES
    log,        \* log[m][d]: the lines of m's log of day d
    stored,     \* stored[m][d]: the lines of it that the server has
    seen        \* seen[m][p]: how far m has followed the log of p, or, for
                \* m itself, how far it knows its own log to be stored

replicaVars == <<log, stored, seen>>

(* Line i of day d lies behind the position c.                             *)
Behind(c, d, i) == d < c.date \/ (d = c.date /\ i - 1 <= c.off)

IsBeginning(s, t) == Len(s) <= Len(t) /\ \A i \in 1..Len(s) : s[i] = t[i]

Forward(c, x) == c.date < x.date \/ (c.date = x.date /\ c.off <= x.off)

Init ==
    /\ log = [m \in Machines |-> [d \in Dates |-> <<>>]]
    /\ stored = log
    /\ seen = [m \in Machines |-> [p \in Machines |-> [date |-> 0, off |-> -1]]]

Write(m, d) ==
    /\ \A x \in Machines : ~Behind(seen[x][m], d, Len(log[m][d]) + 1)
    /\ \E l \in Lines : log' = [log EXCEPT ![m][d] = Append(@, l)]
    /\ UNCHANGED <<stored, seen>>

(* One or more days at once.                                               *)
Store(m) ==
    /\ \A p \in Machines \ {m} : stored'[p] = stored[p]
    /\ \A d \in Dates : /\ IsBeginning(stored[m][d], stored'[m][d])
                        /\ IsBeginning(stored'[m][d], log[m][d])
    /\ UNCHANGED <<log, seen>>

(* One or more cursors at once.                                            *)
Advance(m) ==
    /\ \A x \in Machines \ {m} : seen'[x] = seen[x]
    /\ \A p \in Machines :
          /\ Forward(seen[m][p], seen'[m][p])
          /\ \A d \in Dates : \A i \in 1..Len(log[p][d]) :
                Behind(seen'[m][p], d, i) => i <= Len(stored[p][d])
    /\ UNCHANGED <<log, stored>>

Next ==
    \/ \E m \in Machines, d \in Dates : Write(m, d)
    \/ \E m \in Machines : Store(m) \/ Advance(m)

Spec == Init /\ [][Next]_replicaVars
=============================================================================
