-------------------------- MODULE InvestigationLock --------------------------
(***************************************************************************)
(* CheckAndLockInvestigation for one pod_key.  With a database it is a     *)
(* transaction of two statements: SELECT ... FOR UPDATE, then an UPDATE of *)
(* the row it locked or an INSERT of the row it did not find.  Postgres    *)
(* runs it at READ COMMITTED: a SELECT sees committed rows only, waits for *)
(* the transaction that holds the row, and the INSERT of a key another     *)
(* transaction is inserting waits for that one to end.  Every replica      *)
(* reads its own clock.  Without a database, a map under lockMu.           *)
(***************************************************************************)
EXTENDS Integers, Storage

CONSTANTS
    Caller,     \* goroutines of all the replicas that ask for the same key
    Window,     \* how long a lock holds (30 minutes)
    Skew,       \* how far apart the clocks of two callers may be
    MaxTime,    \* bound on time
    Nobody

ASSUME LockAssumption ==
    /\ Nobody \notin Caller
    /\ {Window, Skew, MaxTime} \subseteq Nat

NoLock == -1

VARIABLES
    now,       \* real time
    offset,    \* by how much each caller's clock is ahead
    lockedAt,  \* the committed locked_at of the row, or of the map's entry
    holder,    \* the transaction that holds the row, or is inserting it
    pc, seen, stamp,   \* per caller: control, the row it read, its new locked_at
    granted    \* when each caller was last told true, in real time

vars == <<hasDB, now, offset, lockedAt, holder, pc, seen, stamp, granted>>
Time == -1 .. MaxTime + Skew
Control == {"idle", "select", "check", "stamp", "insert", "update", "commit"}

TypeOK ==
    /\ hasDB \in BOOLEAN
    /\ now \in 0..MaxTime
    /\ offset \in [Caller -> 0..Skew]
    /\ lockedAt \in Time
    /\ holder \in Caller \cup {Nobody}
    /\ pc \in [Caller -> Control]
    /\ seen \in [Caller -> Time] /\ stamp \in [Caller -> Time]
    /\ granted \in [Caller -> -1 .. MaxTime]

(* A controller without a database is one process with one clock.          *)
Init ==
    /\ hasDB \in BOOLEAN
    /\ now = 0
    /\ offset \in [Caller -> IF hasDB THEN 0..Skew ELSE {0}]
    /\ lockedAt = NoLock
    /\ holder = Nobody
    /\ pc = [c \in Caller |-> "idle"]
    /\ seen = [c \in Caller |-> NoLock] /\ stamp = [c \in Caller |-> NoLock]
    /\ granted = [c \in Caller |-> -1]

Clock(c) == now + offset[c]
Goto(c, label) == pc' = [pc EXCEPT ![c] = label]

(* The deferred Rollback, or the end of a commit; the locals go with it.   *)
EndTx(c) ==
    /\ holder' = IF holder = c THEN Nobody ELSE holder
    /\ seen' = [seen EXCEPT ![c] = NoLock]
    /\ stamp' = [stamp EXCEPT ![c] = NoLock]
    /\ Goto(c, "idle")

Call(c) ==
    /\ hasDB
    /\ pc[c] = "idle"
    /\ Goto(c, "select")
    /\ UNCHANGED <<hasDB, now, offset, lockedAt, holder, seen, stamp, granted>>

(* Mutant: the SELECT does not lock the row.                               *)
SelectNoLock(c) ==
    /\ pc[c] = "select"
    /\ seen' = [seen EXCEPT ![c] = lockedAt]
    /\ Goto(c, IF lockedAt = NoLock THEN "stamp" ELSE "check")
    /\ UNCHANGED <<hasDB, now, offset, lockedAt, holder, stamp, granted>>

(* A row that is only being inserted is not there yet.                     *)
Select(c) ==
    /\ pc[c] = "select"
    /\ \/ /\ lockedAt = NoLock
          /\ Goto(c, "stamp")
          /\ UNCHANGED holder
       \/ /\ lockedAt # NoLock /\ holder = Nobody
          /\ holder' = c
          /\ Goto(c, "check")
    /\ seen' = [seen EXCEPT ![c] = lockedAt]
    /\ UNCHANGED <<hasDB, now, offset, lockedAt, stamp, granted>>

(* Mutant: the transaction is left open when the lock is refused.          *)
CheckNoRollback(c) ==
    /\ pc[c] = "check"
    /\ Goto(c, IF Clock(c) - seen[c] < Window THEN "idle" ELSE "stamp")
    /\ UNCHANGED <<hasDB, now, offset, lockedAt, holder, seen, stamp, granted>>

(* Refused within the window, as time.Since sees it.                       *)
Check(c) ==
    /\ pc[c] = "check"
    /\ IF Clock(c) - seen[c] < Window
         THEN EndTx(c)
         ELSE Goto(c, "stamp") /\ UNCHANGED <<holder, seen, stamp>>
    /\ UNCHANGED <<hasDB, now, offset, lockedAt, granted>>

(* time.Now() is evaluated before its statement is sent.                   *)
Stamp(c) ==
    /\ pc[c] = "stamp"
    /\ stamp' = [stamp EXCEPT ![c] = Clock(c)]
    /\ Goto(c, IF seen[c] = NoLock THEN "insert" ELSE "update")
    /\ UNCHANGED <<hasDB, now, offset, lockedAt, holder, seen, granted>>

Update(c) ==
    /\ pc[c] = "update"
    /\ Goto(c, "commit")
    /\ UNCHANGED <<hasDB, now, offset, lockedAt, holder, seen, stamp, granted>>

(* Mutant: ON CONFLICT DO UPDATE.                                          *)
Upsert(c) ==
    /\ pc[c] = "insert"
    /\ holder = Nobody
    /\ holder' = c
    /\ Goto(c, "commit")
    /\ UNCHANGED <<hasDB, now, offset, lockedAt, seen, stamp, granted>>

(* The primary key refuses a row that has appeared since the SELECT.       *)
Insert(c) ==
    /\ pc[c] = "insert"
    /\ \/ /\ lockedAt = NoLock /\ holder = Nobody
          /\ holder' = c
          /\ Goto(c, "commit")
          /\ UNCHANGED <<seen, stamp>>
       \/ /\ lockedAt # NoLock
          /\ EndTx(c)
    /\ UNCHANGED <<hasDB, now, offset, lockedAt, granted>>

(* A commit may take effect although its reply is lost: the caller is told *)
(* false and the window is spent.                                          *)
Commit(c) ==
    /\ pc[c] = "commit"
    /\ lockedAt' = stamp[c]
    /\ \/ granted' = [granted EXCEPT ![c] = stamp[c] - offset[c]]
       \/ DBFaults /\ UNCHANGED granted
    /\ EndTx(c)
    /\ UNCHANGED <<hasDB, now, offset>>

(* A statement fails, or the replica dies and its connection with it.      *)
Fail(c) ==
    /\ DBFaults
    /\ pc[c] # "idle"
    /\ EndTx(c)
    /\ UNCHANGED <<hasDB, now, offset, lockedAt, granted>>

(* The critical section of lockMu.                                         *)
LockInMemory(c) ==
    /\ ~hasDB
    /\ \/ /\ lockedAt = NoLock \/ Clock(c) - lockedAt >= Window
          /\ lockedAt' = Clock(c)
          /\ granted' = [granted EXCEPT ![c] = now]
       \/ /\ lockedAt # NoLock /\ Clock(c) - lockedAt < Window
          /\ UNCHANGED <<lockedAt, granted>>
    /\ UNCHANGED <<hasDB, now, offset, holder, pc, seen, stamp>>

Tick ==
    /\ now < MaxTime
    /\ now' = now + 1
    /\ UNCHANGED <<hasDB, offset, lockedAt, holder, pc, seen, stamp, granted>>

Step(c) == \/ Select(c) \/ Check(c) \/ Stamp(c) \/ Update(c)
           \/ Insert(c) \/ Commit(c)

Next ==
    \/ \E c \in Caller : Call(c) \/ Step(c) \/ Fail(c) \/ LockInMemory(c)
    \/ Tick

Spec == Init /\ [][Next]_vars

(* A transaction that can go on does, and Postgres serves those that wait  *)
(* for a row in turn.                                                      *)
Fairness == \A c \in Caller : SF_vars(Step(c))
FairSpec == Spec /\ Fairness

-----------------------------------------------------------------------------
(* Two replicas are never both told to investigate one workload within the *)
(* window, less the skew of their clocks, though each decides on a row it  *)
(* read a statement earlier and either may be inserting that row.  Without *)
(* a database it is the whole window.                                      *)
Gap == IF hasDB THEN Window - Skew ELSE Window
LW == INSTANCE LockWindow WITH gap <- Gap, Time <- 0..MaxTime
ImplementsLockWindow == LW!LWSpec

(* Whatever is refused, conflicts or fails, every call is answered: no     *)
(* transaction keeps the row that the others wait for.                     *)
EveryCallAnswered == \A c \in Caller : pc[c] # "idle" ~> pc[c] = "idle"

(* The inductive invariant: the row outlives every grant and nobody else   *)
(* can change it between a caller's check and its commit.                  *)
HolderInv ==
    \A c \in Caller :
        /\ ~hasDB => pc[c] = "idle" /\ offset[c] = 0
        /\ holder = c => pc[c] \in {"check", "stamp", "update", "commit"}
        /\ pc[c] \in {"check", "update", "commit"} => holder = c
        /\ pc[c] = "stamp" /\ seen[c] # NoLock => holder = c
        /\ pc[c] = "stamp" /\ seen[c] = NoLock => holder # c
RowInv ==
    \A c \in Caller :
        /\ granted[c] # -1 => lockedAt # NoLock /\ granted[c] + offset[c] <= lockedAt
        /\ holder = c => seen[c] = lockedAt
        /\ pc[c] \in {"check", "update"} => seen[c] # NoLock
        /\ pc[c] = "insert" => seen[c] = NoLock
        /\ pc[c] = "stamp" /\ seen[c] # NoLock => Clock(c) >= seen[c] + Window
        /\ pc[c] \in {"insert", "update", "commit"} => stamp[c] \in offset[c] .. Clock(c)
        /\ pc[c] \in {"update", "commit"} /\ seen[c] # NoLock => stamp[c] >= seen[c] + Window
LockInv == TypeOK /\ HolderInv /\ RowInv
=============================================================================
