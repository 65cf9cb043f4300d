--------------------------- MODULE RemediationInv ---------------------------
(***************************************************************************)
(* The inductive invariant of Remediation: who may write a row, and what   *)
(* that goroutine knows about it.  A plan is first a draft of one worker,  *)
(* then owned by the worker that submits it, then by nobody while its fix  *)
(* is pending, then by the one approver that took the fix, and at last its *)
(* row belongs to the monitors, whose verdicts rest on facts that stay.    *)
(***************************************************************************)
EXTENDS Remediation

WorkerControl   == {"idle", "history", "provider", "save", "store", "announce", "verify",
                    "limit", "create", "record", "skip", "stop"}
ApproverControl == {"idle", "take", "verify", "create", "record", "skip"}
MonitorControl  == {"idle", "poll", "settle", "revert", "settle_revert"}

(* The labels at which a submitter is the only writer of its plan.         *)
OwnerControl == {"store", "announce", "verify", "limit", "create", "record", "skip", "stop"}
Owns(a, p) == a \in Submitter /\ cur[a] = p /\ pc[a] \in OwnerControl

Drafts(w) == todo[w] \cup batch[w]

(* Each actor stays in its own code and works on a plan exactly where that *)
(* code has one.                                                           *)
ControlInv ==
    /\ \A w \in Worker :
         /\ pc[w] \in WorkerControl
         /\ cur[w] # NoPlan <=> pc[w] \in OwnerControl \cup {"provider"}
         /\ pc[w] = "idle" => batch[w] = {}
         /\ pc[w] \notin {"history", "provider"} => todo[w] = {}
         /\ pc[w] = "provider" => cur[w] \in todo[w]
         /\ todo[w] \cap batch[w] = {}
    /\ \A a \in Approver :
         /\ pc[a] \in ApproverControl
         /\ cur[a] # NoPlan <=> pc[a] # "idle"
    /\ \A m \in Monitor :
         /\ pc[m] \in MonitorControl
         /\ cur[m] # NoPlan <=> pc[m] \in {"settle", "settle_revert"}

(* A plan no row or fix or pull request was ever made for.                 *)
Untouched(p) == row[p] = "absent" /\ fix[p] = "none" /\ pr[p] = "none"

(* Drafts are untouched, belong to one worker and have no other actor.     *)
DraftInv ==
    \A w \in Worker : \A p \in Drafts(w) :
        /\ target[p] # NoTarget
        /\ Untouched(p)
        /\ \A v \in Worker : p \in Drafts(v) => v = w
        /\ \A a \in Submitter : ~Owns(a, p)
        /\ mode[p] = "undecided" <=> pc[w] \in {"history", "provider"}

UnusedInv ==
    \A p \in Plan : target[p] = NoTarget =>
        /\ Untouched(p)
        /\ mode[p] = "undecided"
        /\ \A a \in Submitter : ~Owns(a, p)

(* The mode of a plan says what it needed to get there.                    *)
ModeInv ==
    \A p \in Plan :
        /\ mode[p] = "undecided" => Untouched(p) /\ p \notin confident /\ p \notin risky
        /\ mode[p] = "auto-fix" => Mode = "auto-fix" /\ p \in confident /\ p \notin risky
        /\ mode[p] = "click-to-fix" => Mode # "dry-run"
        /\ mode[p] = "click-to-fix" /\ Mode = "auto-fix" => p \in confident
        /\ mode[p] = "dry-run" => fix[p] = "none" /\ pr[p] = "none"
        /\ mode[p] = "auto-fix" => fix[p] = "none"
        /\ mode[p] = "click-to-fix" /\ pr[p] # "none" => fix[p] = "taken"

SoleOwner ==
    \A a, b \in Submitter : \A p \in Plan : Owns(a, p) /\ Owns(b, p) => a = b

(* What the owner of a plan knows: its row is still a draft, and whether   *)
(* the fix and the pull request exist follows from where it is.            *)
WorkerOwnerInv ==
    \A w \in Worker : \A p \in Plan : Owns(w, p) =>
        /\ row[p] \in DraftStatus
        /\ pc[w] \in {"verify", "limit", "create", "record", "skip"} => mode[p] = "auto-fix"
        /\ pc[w] \in {"store", "announce"} => mode[p] = "click-to-fix"
        /\ pc[w] = "stop" => mode[p] \in {"auto-fix", "click-to-fix"}
        /\ pc[w] = "store" => fix[p] = "none"
        /\ pc[w] \in {"announce", "stop"} => fix[p] \in {"none", "unannounced", "expired"}
        /\ pc[w] \in {"verify", "limit", "create"} => pr[p] = "none"
        /\ pc[w] = "record" => pr[p] # "none"

ApproverOwnerInv ==
    \A a \in Approver : \A p \in Plan : Owns(a, p) =>
        /\ row[p] \in DraftStatus
        /\ fix[p] = "taken"
        /\ mode[p] = "click-to-fix"
        /\ pc[a] \in {"verify", "create"} => pr[p] = "none"
        /\ pc[a] = "record" => pr[p] # "none"

(* Nobody owns a plan while its fix is pending: the next owner is the      *)
(* approver that takes it.                                                 *)
PendingInv ==
    \A p \in Plan : fix[p] = "pending" =>
        /\ row[p] \in DraftStatus
        /\ mode[p] = "click-to-fix"
        /\ pr[p] = "none"
        /\ \A a \in Submitter : ~Owns(a, p)

(* The row has reached the monitors, and what they were told stays true.   *)
Submitted(p) ==
    \/ row[p] = "pr_opened" \/ row[p] \in MergedStatus
    \/ row[p] = "pr_failed" /\ pr[p] = "closed"

MonitorInv ==
    \A m \in Monitor : \A p \in Plan :
        /\ pc[m] \in {"poll", "settle"} /\ p \in todo[m] => Submitted(p)
        /\ pc[m] \in {"poll", "settle"} /\ p \in batch[m] => row[p] \in MergedStatus
        /\ pc[m] \in {"revert", "settle_revert"} /\ p \in todo[m] => row[p] \in MergedStatus
        /\ pc[m] = "settle" /\ cur[m] = p =>
             \/ verdict[m] = "pr_failed" /\ pr[p] = "closed" /\ Submitted(p)
             \/ verdict[m] = "observing" /\ pr[p] = "merged" /\ Submitted(p)
             \/ verdict[m] = "production_failed" /\ row[p] \in MergedStatus
        /\ pc[m] = "settle_revert" /\ cur[m] = p =>
             /\ verdict[m] \in {"revert_opened", "revert_failed"}
             /\ row[p] \in MergedStatus
             /\ verdict[m] = "revert_opened" /\ MaxReverts > 0 => reverts[p] > 0

IInv ==
    /\ TypeOK
    /\ ControlInv /\ DraftInv /\ UnusedInv /\ ModeInv
    /\ SoleOwner /\ WorkerOwnerInv /\ ApproverOwnerInv /\ PendingInv
    /\ MonitorInv /\ RecordsSound
=============================================================================
