----------------------------- MODULE MCSyncTwo -----------------------------
(***************************************************************************)
(* Two laptops that read or mark the same page u on the same day, each     *)
(* once, at the same time or at different times.                           *)
(***************************************************************************)
EXTENDS SyncProps

CONSTANTS lapA, lapB, u, t1, t2, s1, h1

Read(ts, also) == [kind |-> "read", url |-> u, ts |-> ts, also |-> also]

MCMessages == <<{Read(t1, FALSE), Read(t2, FALSE),
                [kind |-> "of_interest", url |-> u, ts |-> t2, also |-> FALSE]}>>

(* The page was not of interest before.                                    *)
MCMarking == <<{Read(t1, TRUE)}>>

MCQuota == [m \in Machines |-> 2]
=============================================================================
