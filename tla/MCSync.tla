------------------------------- MODULE MCSync -------------------------------
(***************************************************************************)
(* Two laptops over two days: lapA reads the page u once a day, lapB pulls.*)
(***************************************************************************)
EXTENDS SyncProps, TLC

CONSTANTS lapA, lapB, u, t1, t2, s1, s2, h1, h2

MCMessages ==
    <<{[kind |-> "read", url |-> u, ts |-> t1, also |-> FALSE]},
      {[kind |-> "read", url |-> u, ts |-> t2, also |-> FALSE]}>>

(* One invocation a day: its action line and its result line.              *)
MCQuota == [m \in Machines |-> IF m = lapA THEN 2 ELSE 0]

MCSymmetry == Permutations({s1, s2})
=============================================================================
