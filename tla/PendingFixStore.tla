--------------------------- MODULE PendingFixStore ---------------------------
(***************************************************************************)
(* TakePendingFix for one callback id that SavePendingFix has stored:      *)
(* SELECT ... FOR UPDATE, DELETE and COMMIT in a transaction, run by every *)
(* press of the approval button on any replica, while the leader's timer   *)
(* runs CleanupExpiredPendingFixes, a DELETE of its own.  A statement that *)
(* needs the row waits for the transaction that holds it and then sees     *)
(* what that one committed.  Without a database the pendingFixes map does  *)
(* the same in one critical section, which is HandOut itself.              *)
(***************************************************************************)
CONSTANTS Taker, NoTaker

ASSUME TakerAssumption == NoTaker \notin Taker

VARIABLES
    stored,   \* the row is in pending_fixes
    fixHolder,   \* the transaction that holds it
    takePc,
    got       \* the approvals that were handed the fix

storeVars == <<stored, fixHolder, takePc, got>>

StoreTypeOK ==
    /\ stored \in BOOLEAN
    /\ fixHolder \in Taker \cup {NoTaker}
    /\ takePc \in [Taker -> {"idle", "select", "delete", "commit"}]
    /\ got \subseteq Taker

StoreInit ==
    /\ stored = TRUE
    /\ fixHolder = NoTaker
    /\ takePc = [t \in Taker |-> "idle"]
    /\ got = {}

TakeGoto(t, label) == takePc' = [takePc EXCEPT ![t] = label]

EndTake(t) ==
    /\ fixHolder' = IF fixHolder = t THEN NoTaker ELSE fixHolder
    /\ TakeGoto(t, "idle")

Press(t) ==
    /\ takePc[t] = "idle"
    /\ TakeGoto(t, "select")
    /\ UNCHANGED <<stored, fixHolder, got>>

(* Mutant: the SELECT does not lock the row.                               *)
SelectFixNoLock(t) ==
    /\ takePc[t] = "select"
    /\ TakeGoto(t, IF stored THEN "delete" ELSE "idle")
    /\ UNCHANGED <<stored, fixHolder, got>>

(* sql.ErrNoRows: processed already, or expired.                           *)
SelectFix(t) ==
    /\ takePc[t] = "select"
    /\ \/ stored /\ fixHolder = NoTaker /\ fixHolder' = t /\ TakeGoto(t, "delete")
       \/ ~stored /\ EndTake(t)
    /\ UNCHANGED <<stored, got>>

DeleteFix(t) ==
    /\ takePc[t] = "delete"
    /\ TakeGoto(t, "commit")
    /\ UNCHANGED <<stored, fixHolder, got>>

(* The reply to a commit may be lost: the fix is gone and nobody has it.   *)
CommitTake(t) ==
    /\ takePc[t] = "commit"
    /\ stored' = FALSE
    /\ got' = got \cup {t} \/ UNCHANGED got
    /\ EndTake(t)

(* A statement fails, the request's context is cancelled or the replica    *)
(* dies: the deferred Rollback, or the closed connection, frees the row.   *)
FailTake(t) ==
    /\ takePc[t] # "idle"
    /\ EndTake(t)
    /\ UNCHANGED <<stored, got>>

CleanupFixes ==
    /\ stored /\ fixHolder = NoTaker
    /\ stored' = FALSE
    /\ UNCHANGED <<fixHolder, takePc, got>>

StoreNext ==
    \/ \E t \in Taker : Press(t) \/ SelectFix(t) \/ DeleteFix(t) \/ CommitTake(t) \/ FailTake(t)
    \/ CleanupFixes

StoreSpec == StoreInit /\ [][StoreNext]_storeVars

-----------------------------------------------------------------------------
(* However often and wherever the button is pressed, and whenever the      *)
(* clean-up runs, one approval at most is handed the fix.                  *)
HO == INSTANCE HandOut WITH available <- stored
ImplementsHandOut == HO!HOSpec

(* The inductive invariant: between its SELECT and its commit a taker      *)
(* holds the row, which is there and was handed to nobody.                 *)
StoreInv ==
    /\ StoreTypeOK
    /\ \A t \in Taker : takePc[t] \in {"delete", "commit"} <=> fixHolder = t
    /\ fixHolder # NoTaker => stored
    /\ stored => got = {}
=============================================================================
