-------------------------------- MODULE Sync --------------------------------
(***************************************************************************)
(* Multi-laptop sync mode: laptops that log visits, push their logs to the *)
(* sync server and pull their peers' logs back.                            *)
(***************************************************************************)
EXTENDS SyncStore, SyncLaptop

CONSTANT MaxFaults      \* failures in a behaviour (bound)

ASSUME MaxFaultsAssumption == MaxFaults \in Nat

VARIABLE faults         \* failures so far

vars == <<storeVars, rpcVars, laptopVars, faults>>

TypeOK ==
    /\ RpcTypeOK
    /\ StoreTypeOK
    /\ LaptopTypeOK
    /\ faults \in Nat

Init == RpcInit /\ StoreInit /\ LaptopInit /\ faults = 0

(***************************************************************************)
(* The actions of each party, and the failures.                            *)
(***************************************************************************)
Server(m) == ServeNext(m) /\ UNCHANGED <<laptopVars, faults>>
Host(m)   == HostNext(m) /\ UNCHANGED <<rpcVars, storeVars, faults>>
Client(m) == SyncNext(m) /\ UNCHANGED <<storeVars, faults>>
NewDay    == Midnight /\ UNCHANGED <<rpcVars, storeVars, faults>>

Fault ==
    /\ faults < MaxFaults
    /\ faults' = faults + 1
    /\ \/ \E m \in Machines :
             /\ \E s \in Slots : \/ \E k \in Dates : AppendFails(m, s, k)
                                 \/ ReplayFails(m, s)
             /\ UNCHANGED laptopVars
       \/ Restart /\ UNCHANGED laptopVars
       \/ /\ \E m \in Machines : PushTimeout(m) \/ PullEndsEarly(m) \/ SyncKilled(m)
          /\ UNCHANGED storeVars

Next ==
    \/ \E m \in Machines : Server(m) \/ Host(m) \/ Client(m)
    \/ NewDay
    \/ Fault

Spec == Init /\ [][Next]_vars

(***************************************************************************)
(* Fairness.  The server runs its handlers and streams; an invocation of   *)
(* the host runs to its end, and so does a sync process; the sync process  *)
(* is started again and again, because the user goes on browsing.  Neither *)
(* a visit, nor midnight, nor a failure has to happen.                     *)
(***************************************************************************)
Fairness ==
    \A m \in Machines :
        /\ WF_vars(Server(m))
        /\ \A h \in Procs :
              WF_vars(HostRuns(m, h) /\ UNCHANGED <<rpcVars, storeVars, faults>>)
        /\ WF_vars(Client(m))

FairSpec == Spec /\ Fairness
=============================================================================
