------------------------------ MODULE Records ------------------------------
(* The records of History side by side: the lock on an investigation, a    *)
(* pending fix, the events the auto-fix limit counts and the predictions   *)
(* the leak scan repeats itself by.  They share the choice of storage,     *)
(* which is made at start, and neither a row nor a mutex, so a behaviour   *)
(* of all of them is any interleaving of one of each; focus is the one     *)
(* that moves.                                                             *)
EXTENDS InvestigationLock, PendingFixStore, AutoFixLimiter, LeakScan

VARIABLE focus

recordsVars == <<vars, storeVars, limiterVars, leakVars, focus>>

RecordsInit ==
    /\ Init /\ StoreInit /\ LimiterInit /\ LeakInit
    /\ focus \in {"lock", "fix", "limit", "leak"}
    /\ focus = "fix" => hasDB
    /\ focus = "lock" \/ offset = [c \in Caller |-> 0]

RecordsNext ==
    /\ \/ focus = "lock" /\ Next
       \/ focus # "lock" /\ UNCHANGED vars
    /\ \/ focus = "fix" /\ StoreNext
       \/ focus # "fix" /\ UNCHANGED storeVars
    /\ \/ focus = "limit" /\ LimiterNext
       \/ focus # "limit" /\ UNCHANGED limiterVars
    /\ \/ focus = "leak" /\ LeakNext
       \/ focus # "leak" /\ UNCHANGED leakVars
    /\ UNCHANGED focus

RecordsSpec == RecordsInit /\ [][RecordsNext]_recordsVars /\ Fairness
=============================================================================
