------------------------------- MODULE LeakScan -------------------------------
(***************************************************************************)
(* scanForLeaks for one pod, run by every replica that takes itself for    *)
(* the leader: a growth above the threshold is reported unless the pod was *)
(* reported less than four hours ago and has not grown half as much again, *)
(* or another investigation holds the key of the pod.  A scan has two      *)
(* minutes, less than a step of the clock; when they are over, or the      *)
(* database fails, the report goes out and its record is lost.             *)
(***************************************************************************)
EXTENDS Integers, Storage

CONSTANTS
    Scanner,     \* the scan goroutines of the replicas
    Rates,       \* growth rates of the last hour, in per cent
    Threshold,   \* PREDICTIVE_GROWTH_THRESHOLD
    LeakWindow,      \* 30 minutes
    Cooldown,    \* 4 hours
    MaxLeakFaults    \* bound on crashes and failed statements

ASSUME LeakAssumption ==
    /\ Rates \subseteq Nat /\ Threshold \in Nat
    /\ LeakWindow \in Nat \ {0} /\ Cooldown \in Nat /\ LeakWindow <= Cooldown
    /\ MaxLeakFaults \in Nat

VARIABLES
    scan,       \* per scanner: what it does, and the growth it saw
    leakLock,   \* what is left of the lock on the pod's key
    prediction, \* the row of predictions: what is left of its cooldown, its rate
    lastReport, \* the last report, in the same terms
    leakFaults

leakVars == <<hasDB, scan, leakLock, prediction, lastReport, leakFaults>>
NoReport == [left |-> 0, rate |-> 0]
Reports == [left : 0..Cooldown, rate : Rates \cup {0}]
NoScan == [pc |-> "idle", rate |-> 0]

LeakTypeOK ==
    /\ hasDB \in BOOLEAN
    /\ scan \in [Scanner -> {NoScan} \cup [pc : {"report", "record"}, rate : Rates]]
    /\ leakLock \in 0..LeakWindow /\ prediction \in Reports /\ lastReport \in Reports
    /\ leakFaults \in 0..MaxLeakFaults

LeakInit ==
    /\ hasDB \in BOOLEAN
    /\ scan = [s \in Scanner |-> NoScan]
    /\ leakLock = 0 /\ prediction = NoReport /\ lastReport = NoReport /\ leakFaults = 0

LeakFault == hasDB /\ DBFaults /\ leakFaults < MaxLeakFaults /\ leakFaults' = leakFaults + 1
ScanGoto(s, pc, rate) == scan' = [scan EXCEPT ![s] = [pc |-> pc, rate |-> rate]]

(* growthIncrease < 0.50, relative to the rate that was recorded.          *)
GrewLittle(rate, old) == 2 * (rate - old.rate) < old.rate

(* Mutant: only the very growth that was reported is suppressed.           *)
SuppressedIfSame(rate) == prediction.left > 0 /\ rate = prediction.rate

(* GetPredictionState finds nothing without a database, or when it fails.  *)
Suppressed(rate) == prediction.left > 0 /\ GrewLittle(rate, prediction)

(* Without a database there is one process, and one scanner.               *)
Runs(s) == hasDB \/ \A t \in Scanner \ {s} : scan[t] = NoScan

Flag(s, rate) ==
    /\ Runs(s)
    /\ scan[s] = NoScan /\ rate > Threshold
    /\ \/ ~Suppressed(rate) /\ UNCHANGED leakFaults
       \/ Suppressed(rate) /\ LeakFault
    /\ leakLock = 0 /\ leakLock' = LeakWindow
    /\ ScanGoto(s, "report", rate)
    /\ UNCHANGED <<hasDB, prediction, lastReport>>

(* A lock that was committed although its reply was lost.                  *)
LockLost(s) ==
    /\ scan[s] = NoScan /\ leakLock = 0 /\ LeakFault
    /\ leakLock' = LeakWindow
    /\ UNCHANGED <<hasDB, scan, prediction, lastReport>>

(* SaveInvestigation and the notifications.                                *)
ReportLeak(s) ==
    /\ scan[s].pc = "report"
    /\ lastReport' = [left |-> Cooldown, rate |-> scan[s].rate]
    /\ ScanGoto(s, "record", scan[s].rate)
    /\ UNCHANGED <<hasDB, leakLock, prediction, leakFaults>>

(* UpdatePredictionState; handleRemediation follows.                       *)
RecordLeak(s) ==
    /\ scan[s].pc = "record"
    /\ \/ /\ prediction' = IF hasDB THEN [left |-> Cooldown, rate |-> scan[s].rate] ELSE prediction
          /\ UNCHANGED leakFaults
       \/ LeakFault /\ UNCHANGED prediction
    /\ ScanGoto(s, "idle", 0)
    /\ UNCHANGED <<hasDB, leakLock, lastReport>>

CrashScan(s) ==
    /\ leakFaults < MaxLeakFaults /\ leakFaults' = leakFaults + 1
    /\ scan' = IF hasDB THEN [scan EXCEPT ![s] = NoScan] ELSE [t \in Scanner |-> NoScan]
    /\ leakLock' = IF hasDB THEN leakLock ELSE 0
    /\ UNCHANGED <<hasDB, prediction, lastReport>>

Less(n) == IF n > 0 THEN n - 1 ELSE 0
LeakTick ==
    /\ \A s \in Scanner : scan[s] = NoScan
    /\ leakLock' = Less(leakLock)
    /\ prediction' = [prediction EXCEPT !.left = Less(@)]
    /\ lastReport' = [lastReport EXCEPT !.left = Less(@)]
    /\ UNCHANGED <<hasDB, scan, leakFaults>>

LeakNext ==
    \/ \E s \in Scanner :
         \/ \E rate \in Rates : Flag(s, rate)
         \/ LockLost(s) \/ ReportLeak(s) \/ RecordLeak(s) \/ CrashScan(s)
    \/ LeakTick

LeakSpec == LeakInit /\ [][LeakNext]_leakVars

-----------------------------------------------------------------------------
(* With a database and no fault a leak is reported again only when the     *)
(* cooldown is over or the growth is half as large again, and never by two *)
(* scanners at once; whatever fails, not before the lock's window is over  *)
(* (a process without a database must not crash for that).                 *)
ReportAllowed(s) ==
    /\ hasDB \/ leakFaults = 0 => lastReport.left = 0 \/ Cooldown - lastReport.left >= LeakWindow
    /\ hasDB /\ leakFaults = 0 => lastReport.left = 0 \/ ~GrewLittle(scan[s].rate, lastReport)
ReportsApart == \A s \in Scanner : scan[s].pc = "report" => ReportAllowed(s)
=============================================================================
