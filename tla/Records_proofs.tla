----------------------------- MODULE Records_proofs -----------------------------
(***************************************************************************)
(* The records of History, one after the other: the lock on an             *)
(* investigation, a pending fix, and the predictions of the leak scan.     *)
(* Each is proved to be correct of its own specification, for any number   *)
(* of callers; the limiter's proof has a module of its own.                *)
(***************************************************************************)
EXTENDS Records, TLAPS

-----------------------------------------------------------------------------
(* For every number of callers, every window and every skew: LockInv is    *)
(* inductive, and under it each step grants the lock as LockWindow allows  *)
(* or grants nothing.                                                      *)

LEMMA LockInvInit == Init => LockInv
  BY LockAssumption DEF Init, LockInv, TypeOK, HolderInv, RowInv, Time, Control, NoLock

(* The fields of the invariant, and the ranges arithmetic needs.           *)
LEMMA Ranges ==
  ASSUME TypeOK
  PROVE  /\ now \in Int /\ now >= 0 /\ lockedAt \in Int
         /\ Window \in Int /\ Window >= 0 /\ Skew \in Int /\ Skew >= 0 /\ MaxTime \in Int
         /\ \A c \in Caller : /\ offset[c] \in Int /\ 0 <= offset[c] /\ offset[c] <= Skew
                              /\ seen[c] \in Int /\ stamp[c] \in Int /\ granted[c] \in Int
                              /\ Clock(c) \in Int /\ Clock(c) = now + offset[c]
  BY LockAssumption DEF TypeOK, Time, Clock

LEMMA LockInvNext == LockInv /\ [Next]_vars => LockInv'
<1> SUFFICES ASSUME LockInv, [Next]_vars
             PROVE  LockInv'
  OBVIOUS
<1> USE LockAssumption DEF LockInv, TypeOK, HolderInv, RowInv, Time, Control, NoLock,
                           Clock, Goto, EndTx
<1>1. ASSUME NEW c \in Caller, Call(c) PROVE LockInv'
  BY <1>1 DEF Call
<1>2. ASSUME NEW c \in Caller, Select(c) PROVE LockInv'
  BY <1>2 DEF Select
<1>3. ASSUME NEW c \in Caller, Check(c) PROVE LockInv'
  BY <1>3 DEF Check
<1>4. ASSUME NEW c \in Caller, Stamp(c) PROVE LockInv'
  BY <1>4 DEF Stamp
<1>5. ASSUME NEW c \in Caller, Update(c) PROVE LockInv'
  BY <1>5 DEF Update
<1>6. ASSUME NEW c \in Caller, Insert(c) PROVE LockInv'
  BY <1>6 DEF Insert
<1>7. ASSUME NEW c \in Caller, Commit(c) PROVE LockInv'
  BY <1>7 DEF Commit
<1>8. ASSUME NEW c \in Caller, Fail(c) PROVE LockInv'
  BY <1>8 DEF Fail
<1>9. ASSUME NEW c \in Caller, LockInMemory(c) PROVE LockInv'
  BY <1>9 DEF LockInMemory
<1>10. CASE Tick
  BY <1>10 DEF Tick
<1>11. CASE UNCHANGED vars
  BY <1>11 DEF vars
<1>12. QED
  BY <1>1, <1>2, <1>3, <1>4, <1>5, <1>6, <1>7, <1>8, <1>9, <1>10, <1>11 DEF Next, Step

(* Between the check of a caller and its commit nobody else changes the    *)
(* row, and the row is never older than a grant.                           *)
THEOREM LockInvariant == Spec => []LockInv
  BY LockInvInit, LockInvNext, PTL DEF Spec

(* The value a commit writes is at least a window after every grant.       *)
LEMMA CommitApart ==
  ASSUME LockInv, NEW c \in Caller, pc[c] = "commit",
         NEW d \in Caller, granted[d] # -1
  PROVE  stamp[c] >= granted[d] + offset[d] + Window
<1>1. holder = c /\ seen[c] = lockedAt /\ lockedAt # NoLock
  BY DEF LockInv, HolderInv, RowInv
<1>2. stamp[c] >= lockedAt + Window /\ granted[d] + offset[d] <= lockedAt
  BY <1>1 DEF LockInv, RowInv
<1>3. QED
  BY <1>2, Ranges DEF LockInv

(* CheckAndLockInvestigation implements LockWindow: two grants, by any     *)
(* replicas, are a window less the skew of their clocks apart.             *)
THEOREM GrantsApart == Spec => ImplementsLockWindow
<1>1. Init => LW!LWInit
  BY LockAssumption DEF Init, LW!LWInit, Gap
<1>2. LockInv /\ [Next]_vars => [LW!LWNext]_<<granted, Gap>>
  <2>0. ASSUME LockInv, [Next]_vars PROVE UNCHANGED Gap
    BY <2>0 DEF Gap, Next, Step, vars, Call, Select, Check, Stamp, Update, Insert,
                Commit, Fail, LockInMemory, Tick
  <2> SUFFICES ASSUME LockInv, [Next]_vars, granted' # granted, UNCHANGED Gap
               PROVE  LW!LWNext
    BY <2>0
  <2>1. ASSUME NEW c \in Caller, Commit(c) PROVE LW!LWNext
    <3> DEFINE t == stamp[c] - offset[c]
    <3>1. granted' = [granted EXCEPT ![c] = t]
      BY <2>1 DEF Commit
    <3>2. t \in 0..MaxTime
      <4>1. stamp[c] \in offset[c] .. Clock(c) /\ now \in 0..MaxTime
        BY <2>1 DEF Commit, LockInv, RowInv, TypeOK
      <4>2. QED
        BY <4>1, Ranges DEF LockInv
    <3>3. ASSUME NEW d \in Caller, granted[d] # -1
          PROVE  t >= granted[d] + Gap
      <4>1. stamp[c] >= granted[d] + offset[d] + Window
        BY <2>1, <3>3, CommitApart DEF Commit
      <4>2. hasDB
        BY <2>1 DEF Commit, LockInv, HolderInv
      <4>3. QED
        BY <4>1, <4>2, Ranges DEF LockInv, Gap
    <3> HIDE DEF t
    <3>4. QED
      BY <3>1, <3>2, <3>3 DEF LW!LWNext, LW!Grant
  <2>2. ASSUME NEW c \in Caller, LockInMemory(c) PROVE LW!LWNext
    <3>1. granted' = [granted EXCEPT ![c] = now] /\ now \in 0..MaxTime
      BY <2>2 DEF LockInMemory, LockInv, TypeOK
    <3>2. ASSUME NEW d \in Caller, granted[d] # -1
          PROVE  now >= granted[d] + Gap
      <4>1. lockedAt # NoLock /\ granted[d] + offset[d] <= lockedAt
        BY <3>2 DEF LockInv, RowInv
      <4>2. Clock(c) - lockedAt >= Window /\ ~hasDB
        BY <2>2, <4>1 DEF LockInMemory
      <4>3. offset[c] = 0 /\ offset[d] = 0
        BY <4>2 DEF LockInv, HolderInv
      <4>4. QED
        BY <4>1, <4>2, <4>3, Ranges DEF LockInv, Gap
    <3>3. QED
      BY <3>1, <3>2 DEF LW!LWNext, LW!Grant
  <2>3. QED
    BY <2>1, <2>2 DEF Next, Step, vars, Call, Select, Check, Stamp, Update, Insert,
                      Fail, Tick
<1>3. QED
  BY <1>1, <1>2, LockInvariant, PTL DEF Spec, ImplementsLockWindow, LW!LWSpec

-----------------------------------------------------------------------------
(* Whatever the number of approvals, a pending fix is handed out at most   *)
(* once: StoreInv is inductive, and under it each step is one of HandOut's *)
(* or changes neither of its variables.                                    *)

LEMMA StoreInvInit == StoreInit => StoreInv
  BY TakerAssumption DEF StoreInit, StoreInv, StoreTypeOK

LEMMA StoreInvNext == StoreInv /\ [StoreNext]_storeVars => StoreInv'
<1> SUFFICES ASSUME StoreInv, [StoreNext]_storeVars
             PROVE  StoreInv'
  OBVIOUS
<1> USE TakerAssumption DEF StoreInv, StoreTypeOK, TakeGoto, EndTake
<1>1. ASSUME NEW t \in Taker, Press(t) PROVE StoreInv'
  BY <1>1 DEF Press
<1>2. ASSUME NEW t \in Taker, SelectFix(t) PROVE StoreInv'
  BY <1>2 DEF SelectFix
<1>3. ASSUME NEW t \in Taker, DeleteFix(t) PROVE StoreInv'
  BY <1>3 DEF DeleteFix
<1>4. ASSUME NEW t \in Taker, CommitTake(t) PROVE StoreInv'
  BY <1>4 DEF CommitTake
<1>5. ASSUME NEW t \in Taker, FailTake(t) PROVE StoreInv'
  BY <1>5 DEF FailTake
<1>6. CASE CleanupFixes
  BY <1>6 DEF CleanupFixes
<1>7. CASE UNCHANGED storeVars
  BY <1>7 DEF storeVars
<1>8. QED
  BY <1>1, <1>2, <1>3, <1>4, <1>5, <1>6, <1>7 DEF StoreNext

(* No interleaving of approvals and clean-ups breaks the store's           *)
(* invariant: a taker past its SELECT holds a row that nobody was handed.  *)
THEOREM StoreInvariant == StoreSpec => []StoreInv
  BY StoreInvInit, StoreInvNext, PTL DEF StoreSpec

(* TakePendingFix hands a stored fix to one approval at most, for every    *)
(* number of approvals pressed on any replica.                             *)
THEOREM HandsOutOnce == StoreSpec => ImplementsHandOut
<1>1. StoreInit => HO!HOInit
  BY DEF StoreInit, HO!HOInit
<1>2. StoreInv /\ [StoreNext]_storeVars => [HO!HONext]_<<stored, got>>
  <2> SUFFICES ASSUME StoreInv, [StoreNext]_storeVars, <<stored, got>>' # <<stored, got>>
               PROVE  HO!HONext
    OBVIOUS
  <2>1. ASSUME NEW t \in Taker, CommitTake(t) PROVE HO!HONext
    <3>1. stored = TRUE /\ got = {}
      BY <2>1, TakerAssumption DEF StoreInv, StoreTypeOK, CommitTake
    <3>2. stored' = FALSE /\ (got' = {t} \/ UNCHANGED got)
      BY <2>1, <3>1 DEF CommitTake
    <3>3. QED
      BY <3>1, <3>2 DEF HO!HONext, HO!Give, HO!Drop
  <2>2. CASE CleanupFixes
    BY <2>2 DEF CleanupFixes, HO!HONext, HO!Drop
  <2>3. QED
    BY <2>1, <2>2 DEF StoreNext, storeVars, Press, SelectFix, DeleteFix, FailTake
<1>3. QED
  BY <1>1, <1>2, StoreInvariant, PTL DEF StoreSpec, ImplementsHandOut, HO!HOSpec

-----------------------------------------------------------------------------
(***************************************************************************)
(* A leak is reported once: for any number of scanners and any rates.  A   *)
(* scan and its report take less than a step of the clock, so the lock it  *)
(* took is fresh until it has ended, and no second scan runs beside it.    *)
(***************************************************************************)

(* Who scans has just taken the lock, which lasts at least as long as the  *)
(* first part of the cooldown of the report.                               *)
LockFresh == \A s \in Scanner : scan[s] # NoScan => leakLock = LeakWindow
OneScan == \A s, t \in Scanner : scan[s] # NoScan /\ scan[t] # NoScan => s = t
LockCovers ==
    hasDB \/ leakFaults = 0 =>
        lastReport.left = 0 \/ leakLock + (Cooldown - lastReport.left) >= LeakWindow

(* With a database and no fault the row says what was reported last, as    *)
(* soon as the scan that reports has recorded it.                          *)
RowTells ==
    hasDB /\ leakFaults = 0 =>
        /\ \A s \in Scanner : scan[s].pc = "record" =>
              lastReport = [left |-> Cooldown, rate |-> scan[s].rate]
        /\ (\A s \in Scanner : scan[s].pc # "record") => prediction = lastReport

LeakInv == LeakTypeOK /\ LockFresh /\ OneScan /\ LockCovers /\ RowTells /\ ReportsApart

(* No scan runs and nothing was reported.                                  *)
LEMMA LeakInit_Inv == LeakInit => LeakInv
  BY LeakAssumption
  DEF LeakInit, LeakInv, LeakTypeOK, LockFresh, OneScan, LockCovers, RowTells, ReportsApart,
      NoReport, Reports, NoScan

-----------------------------------------------------------------------------
(* One lemma for each action.                                              *)
LEMMA FlagInv ==
  ASSUME LeakInv, NEW s \in Scanner, NEW rate \in Rates, Flag(s, rate)
  PROVE  LeakInv'
<1> USE LeakAssumption DEF LeakInv, LeakTypeOK, Reports
<1>1. /\ scan[s] = NoScan /\ leakLock = 0 /\ leakLock' = LeakWindow
      /\ scan' = [scan EXCEPT ![s] = [pc |-> "report", rate |-> rate]]
      /\ hasDB' = hasDB /\ prediction' = prediction /\ lastReport' = lastReport
  BY DEF Flag, ScanGoto
<1>2. \/ leakFaults' = leakFaults /\ ~Suppressed(rate)
      \/ hasDB /\ leakFaults' = leakFaults + 1 /\ leakFaults < MaxLeakFaults
  BY DEF Flag, LeakFault
<1>3. \A t \in Scanner : scan[t] = NoScan
  BY <1>1 DEF LockFresh
<1>4. LeakTypeOK'
  BY <1>1, <1>2
<1>5. LockFresh' /\ OneScan'
  BY <1>1, <1>3 DEF LockFresh, OneScan
<1>6. LockCovers'
  BY <1>1, <1>2 DEF LockCovers
<1>7. RowTells'
  BY <1>1, <1>2, <1>3 DEF RowTells, NoScan
<1>8. ReportsApart'
  <2> SUFFICES ASSUME NEW t \in Scanner, scan'[t].pc = "report" PROVE ReportAllowed(t)'
    BY DEF ReportsApart
  <2>1. t = s /\ scan'[t].rate = rate
    BY <1>1, <1>3 DEF NoScan
  <2>2. ASSUME (hasDB \/ leakFaults = 0)'
        PROVE  lastReport.left = 0 \/ Cooldown - lastReport.left >= LeakWindow
    BY <1>1, <1>2, <2>2 DEF LockCovers
  <2>3. ASSUME (hasDB /\ leakFaults = 0)'
        PROVE  lastReport.left = 0 \/ ~GrewLittle(rate, lastReport)
    <3>1. prediction = lastReport /\ ~Suppressed(rate)
      BY <1>1, <1>2, <1>3, <2>3 DEF RowTells, NoScan
    <3> QED
      BY <3>1 DEF Suppressed
  <2> QED
    BY <1>1, <2>1, <2>2, <2>3 DEF ReportAllowed, GrewLittle
<1> QED
  BY <1>4, <1>5, <1>6, <1>7, <1>8

(* A scan that does not get the lock writes nothing.                       *)
LEMMA LockLostInv ==
  ASSUME LeakInv, NEW s \in Scanner, LockLost(s)
  PROVE  LeakInv'
<1> USE LeakAssumption DEF LeakInv, LeakTypeOK, Reports
<1>1. /\ leakLock = 0 /\ leakLock' = LeakWindow /\ hasDB /\ leakFaults' = leakFaults + 1
      /\ leakFaults < MaxLeakFaults
      /\ hasDB' = hasDB /\ scan' = scan /\ prediction' = prediction /\ lastReport' = lastReport
  BY DEF LockLost, LeakFault
<1>2. LeakTypeOK' /\ LockFresh' /\ OneScan' /\ LockCovers' /\ RowTells'
  BY <1>1 DEF LockFresh, OneScan, LockCovers, RowTells
<1>3. ReportsApart'
  BY <1>1 DEF ReportsApart, ReportAllowed, LockFresh, NoScan
<1> QED
  BY <1>2, <1>3

(* A report is made by the one scan that runs, under a fresh lock.         *)
LEMMA ReportLeakInv ==
  ASSUME LeakInv, NEW s \in Scanner, ReportLeak(s)
  PROVE  LeakInv'
<1> USE LeakAssumption DEF LeakInv, LeakTypeOK, Reports
<1>1. /\ scan[s].pc = "report" /\ scan[s].rate \in Rates
      /\ lastReport' = [left |-> Cooldown, rate |-> scan[s].rate]
      /\ scan' = [scan EXCEPT ![s] = [pc |-> "record", rate |-> scan[s].rate]]
      /\ hasDB' = hasDB /\ leakLock' = leakLock /\ prediction' = prediction
      /\ leakFaults' = leakFaults
  BY DEF ReportLeak, ScanGoto, NoScan
<1>2. leakLock = LeakWindow /\ \A t \in Scanner \ {s} : scan[t] = NoScan
  BY <1>1 DEF LockFresh, OneScan, NoScan
<1>3. LeakTypeOK' /\ LockFresh' /\ OneScan' /\ LockCovers'
  BY <1>1, <1>2 DEF LockFresh, OneScan, LockCovers
<1>4. RowTells'
  BY <1>1, <1>2 DEF RowTells, NoScan
<1>5. ReportsApart'
  BY <1>1, <1>2 DEF ReportsApart, NoScan
<1> QED
  BY <1>3, <1>4, <1>5

(* The row tells when the last report was made.                            *)
LEMMA RecordLeakInv ==
  ASSUME LeakInv, NEW s \in Scanner, RecordLeak(s)
  PROVE  LeakInv'
<1> USE LeakAssumption DEF LeakInv, LeakTypeOK, Reports
<1>1. /\ scan[s].pc = "record" /\ scan[s].rate \in Rates
      /\ scan' = [scan EXCEPT ![s] = [pc |-> "idle", rate |-> 0]]
      /\ hasDB' = hasDB /\ leakLock' = leakLock /\ lastReport' = lastReport
  BY DEF RecordLeak, ScanGoto, NoScan
<1>2. \/ /\ leakFaults' = leakFaults
         /\ prediction' = IF hasDB THEN [left |-> Cooldown, rate |-> scan[s].rate] ELSE prediction
      \/ /\ hasDB /\ leakFaults < MaxLeakFaults /\ leakFaults' = leakFaults + 1
         /\ prediction' = prediction
  BY DEF RecordLeak, LeakFault
<1>3. \A t \in Scanner : scan'[t] = NoScan
  BY <1>1 DEF OneScan, NoScan
<1>4. LeakTypeOK' /\ LockFresh' /\ OneScan' /\ LockCovers'
  BY <1>1, <1>2, <1>3 DEF LockFresh, OneScan, LockCovers
<1>5. RowTells'
  BY <1>1, <1>2, <1>3 DEF RowTells, NoScan
<1>6. ReportsApart'
  BY <1>3 DEF ReportsApart, NoScan
<1> QED
  BY <1>4, <1>5, <1>6

(* A scan that dies leaves a report its lock remembers.                    *)
LEMMA CrashScanInv ==
  ASSUME LeakInv, NEW s \in Scanner, CrashScan(s)
  PROVE  LeakInv'
<1> USE LeakAssumption DEF LeakInv, LeakTypeOK, Reports
<1>1. /\ leakFaults < MaxLeakFaults /\ leakFaults' = leakFaults + 1
      /\ hasDB' = hasDB /\ prediction' = prediction /\ lastReport' = lastReport
  BY DEF CrashScan
<1>2. CASE hasDB
  <2>1. scan' = [scan EXCEPT ![s] = NoScan] /\ leakLock' = leakLock
    BY <1>2 DEF CrashScan
  <2>2. LeakTypeOK' /\ LockFresh' /\ OneScan' /\ LockCovers' /\ RowTells'
    BY <1>1, <1>2, <2>1 DEF LockFresh, OneScan, LockCovers, RowTells
  <2>3. ReportsApart'
    BY <1>1, <1>2, <2>1 DEF ReportsApart, ReportAllowed, NoScan
  <2> QED
    BY <2>2, <2>3
<1>3. CASE ~hasDB
  <2>1. scan' = [t \in Scanner |-> NoScan] /\ leakLock' = 0
    BY <1>3 DEF CrashScan
  <2> QED
    BY <1>1, <1>3, <2>1 DEF LockFresh, OneScan, LockCovers, RowTells, ReportsApart, NoScan
<1> QED
  BY <1>2, <1>3

(* Time passes for locks, rows and reports alike.                          *)
LEMMA LeakTickInv == ASSUME LeakInv, LeakTick PROVE LeakInv'
<1> USE LeakAssumption DEF LeakInv, LeakTypeOK, Reports
<1>1. /\ \A s \in Scanner : scan[s] = NoScan
      /\ leakLock' = Less(leakLock)
      /\ prediction' = [prediction EXCEPT !.left = Less(prediction.left)]
      /\ lastReport' = [lastReport EXCEPT !.left = Less(lastReport.left)]
      /\ hasDB' = hasDB /\ scan' = scan /\ leakFaults' = leakFaults
  BY DEF LeakTick
<1>2. LeakTypeOK'
  BY <1>1 DEF Less
<1>3. LockFresh' /\ OneScan' /\ ReportsApart'
  BY <1>1 DEF LockFresh, OneScan, ReportsApart, NoScan
<1>4. LockCovers'
  BY <1>1 DEF LockCovers, Less
<1>5. RowTells'
  BY <1>1 DEF RowTells, NoScan
<1> QED
  BY <1>2, <1>3, <1>4, <1>5

(* Stuttering.                                                             *)
LEMMA LeakStutterInv == ASSUME LeakInv, UNCHANGED leakVars PROVE LeakInv'
  BY DEF LeakInv, LeakTypeOK, LockFresh, OneScan, LockCovers, RowTells, ReportsApart,
         ReportAllowed, leakVars

-----------------------------------------------------------------------------
(* The locks and the row keep scans of one pod apart, with any scanners.   *)
THEOREM LeakInvariant == LeakSpec => []LeakInv
<1>1. LeakInv /\ [LeakNext]_leakVars => LeakInv'
  BY FlagInv, LockLostInv, ReportLeakInv, RecordLeakInv, CrashScanInv, LeakTickInv,
     LeakStutterInv DEF LeakNext
<1> QED
  BY <1>1, LeakInit_Inv, PTL DEF LeakSpec

(* Without faults a leak is reported again only after its cooldown or when *)
(* it has grown half as much again; with faults, not in the lock's window  *)
(* (scanForLeaks).                                                         *)
THEOREM LeaksReportedApart == LeakSpec => []ReportsApart
  BY LeakInvariant, PTL DEF LeakInv
=============================================================================
