------------------------- MODULE Submission_proofs -------------------------
(***************************************************************************)
(* What follows from the invariant of Remediation about pull requests of   *)
(* several plans and steps: a stale approval is refused for good, a target *)
(* has one open pull request, a regression is reverted once, and the right *)
(* to open a pull request is used once, which is the refinement of         *)
(* Mandate.  The first three have an inductive part of their own on top of *)
(* IInv, under the assumptions their runs name.                            *)
(***************************************************************************)
EXTENDS Remediation_proofs

-----------------------------------------------------------------------------
(* A fix whose source changed is doomed: what was read as changed is never *)
(* read as unchanged again, and nobody is past that check.                 *)
Doomed(p) ==
    /\ fix[p] # "none" /\ target[p] # NoTarget
    /\ p \notin fresh /\ target[p] \notin CreatesFile
    /\ pr[p] = "none"
    /\ \A a \in Submitter : cur[a] = p => pc[a] \notin {"limit", "create"}

(* A stale pending fix waits for a click, so no worker is submitting it.   *)
LEMMA StaleIsDoomed ==
  ASSUME IInv, NEW p \in Plan, StalePending(p)
  PROVE  Doomed(p)
<1> USE DEF IInv, TypeOK, StalePending
<1>1. target[p] # NoTarget
  BY DEF UnusedInv, Untouched
<1>2. mode[p] = "click-to-fix"
  BY DEF ModeInv, Modes, Untouched
<1>3. pr[p] = "none"
  BY <1>2 DEF ModeInv
<1>4. ASSUME NEW a \in Submitter, cur[a] = p, pc[a] \in {"limit", "create"}
      PROVE  FALSE
  <2>1. Owns(a, p)
    BY <1>4 DEF Owns, OwnerControl
  <2> QED
    BY <1>2, <1>4, <2>1, ActorsAssumption
    DEF Submitter, WorkerOwnerInv, ApproverOwnerInv, ControlInv, ApproverControl
<1> QED
  BY <1>1, <1>3, <1>4 DEF Doomed

(* SavePlan as a disjunction: q goes to the step its mode asks for.        *)
Saved(w, q) ==
    \/ mode[q] = "click-to-fix" /\ pc' = [pc EXCEPT ![w] = "store"] /\ cur' = [cur EXCEPT ![w] = q]
    \/ mode[q] = "auto-fix" /\ pc' = [pc EXCEPT ![w] = "verify"] /\ cur' = [cur EXCEPT ![w] = q]
    \/ mode[q] = "dry-run" /\ UNCHANGED <<pc, cur>>

LEMMA SavedPlan ==
  ASSUME IInv, NEW w \in Worker, SavePlan(w)
  PROVE  \E q \in batch[w] :
            /\ Saved(w, q)
            /\ batch' = [batch EXCEPT ![w] = @ \ {q}]
            /\ SaveRow(q, IF mode[q] = "click-to-fix" THEN "pending_approval" ELSE "generated")
<1>1. PICK q \in batch[w] :
         /\ batch' = [batch EXCEPT ![w] = @ \ {q}]
         /\ SaveRow(q, IF mode[q] = "click-to-fix" THEN "pending_approval" ELSE "generated")
         /\ CASE mode[q] = "click-to-fix" -> Goto(w, "store") /\ cur' = [cur EXCEPT ![w] = q]
              [] mode[q] = "auto-fix"     -> Goto(w, "verify") /\ cur' = [cur EXCEPT ![w] = q]
              [] mode[q] = "dry-run"      -> UNCHANGED <<pc, cur>>
  BY DEF SavePlan
<1>2. q \in Plan /\ mode[q] \in Modes
  BY <1>1 DEF IInv, TypeOK, DraftInv, Drafts, SavePlan, Actor, Submitter
<1>3. Saved(w, q)
  BY <1>1, <1>2 DEF Saved, Goto, Modes
<1> QED
  BY <1>1, <1>3

(* Neither freshness nor the checks that were passed come back.            *)
LEMMA DoomedStays ==
  ASSUME IInv, NEW p \in Plan, Doomed(p), [Next]_vars
  PROVE  Doomed(p)'
<1> SUFFICES ASSUME Next PROVE Doomed(p)'
  BY DEF Doomed, vars, planVars, fixVars, vcsVars, actorVars
<1> USE PlanAssumption, ActorsAssumption
        DEF IInv, TypeOK, Doomed, Goto, Submitter, Actor, planVars, rowVars, fixVars,
            vcsVars, actorVars
<1>0. \A w \in Worker : p \notin Drafts(w)
  BY DEF DraftInv, Untouched
<1>1. ASSUME NEW w \in Worker, Generate(w) PROVE Doomed(p)'
  BY <1>1 DEF Generate
<1>2. ASSUME NEW w \in Worker, FilterByHistory(w) PROVE Doomed(p)'
  BY <1>0, <1>2 DEF FilterByHistory, Release, Drafts
<1>3. ASSUME NEW w \in Worker, FilterByProvider(w) PROVE Doomed(p)'
  BY <1>0, <1>3 DEF FilterByProvider, Release, Drafts, ControlInv
<1>4. ASSUME NEW w \in Worker, SavePlan(w) PROVE Doomed(p)'
  <2>1. PICK q \in batch[w] : Saved(w, q)
    BY <1>4, SavedPlan
  <2>2. q # p /\ UNCHANGED <<planVars, fixVars, vcsVars>>
    BY <1>0, <1>4 DEF SavePlan, Drafts
  <2> QED
    BY <2>1, <2>2 DEF Saved
<1>5. ASSUME NEW w \in Worker, NothingLeft(w) \/ ChooseMode(w) \/ BatchDone(w)
      PROVE  Doomed(p)'
  BY <1>5 DEF NothingLeft, ChooseMode, BatchDone
<1>6. ASSUME NEW w \in Worker, StoreFix(w) \/ Announce(w) PROVE Doomed(p)'
  BY <1>6 DEF StoreFix, Announce
<1>7. ASSUME NEW w \in Worker, VerifySource(w) \/ CheckLimit(w) \/ CreatePR(w)
      PROVE  Doomed(p)'
  BY <1>7 DEF VerifySource, CheckLimit, CreatePR, SourceUnchanged
<1>8. ASSUME NEW w \in Worker, RecordPR(w) \/ SkipPlan(w) PROVE Doomed(p)'
  BY <1>8 DEF RecordPR, SkipPlan
<1>9. ASSUME NEW w \in Worker, StopBatch(w) PROVE Doomed(p)'
  BY <1>0, <1>9 DEF StopBatch, Release, Drafts
<1>10. ASSUME NEW a \in Approver, Click(a) \/ HandlerReturns(a) \/ Take(a) \/ RecordApproval(a)
       PROVE  Doomed(p)'
  BY <1>10 DEF Click, HandlerReturns, Take, RecordApproval, GiveUp
<1>11. ASSUME NEW a \in Approver, VerifyPending(a) \/ CreateApprovedPR(a) PROVE Doomed(p)'
  BY <1>11 DEF VerifyPending, CreateApprovedPR, SourceUnchanged
<1>12. ASSUME NEW a \in Approver, CrashApprover(a) PROVE Doomed(p)'
  BY <1>12 DEF CrashApprover, Stopped
<1>13. ASSUME NEW m \in Monitor, MonitorStep(m) PROVE Doomed(p)'
  BY <1>13 DEF MonitorStep, MonitorStart, PollPR, Observe, SettlePR, MonitorReverts,
       OpenRevert, SettleRevert, MonitorEnd, Settle
<1>14. CASE CleanupExpired \/ Tick
  BY <1>14 DEF CleanupExpired, Tick
<1>15. ASSUME NEW q \in Plan, Merge(q) \/ Close(q) PROVE Doomed(p)'
  BY <1>15 DEF Merge, Close
<1>16. ASSUME NEW t \in Target, EditSource(t) PROVE Doomed(p)'
  BY <1>16 DEF EditSource
<1>17. CASE CrashLeader
  <2>1. p \notin UNION {todo[w] \cup batch[w] : w \in Worker}
    BY <1>0 DEF Drafts
  <2>2. \A a \in Submitter : cur'[a] = p => cur[a] = p /\ pc'[a] = pc[a]
    BY <1>17 DEF CrashLeader, Stopped
  <2> QED
    BY <1>17, <2>1, <2>2 DEF CrashLeader, Release
<1> QED
  BY <1>1, <1>2, <1>3, <1>4, <1>5, <1>6, <1>7, <1>8, <1>9, <1>10, <1>11, <1>12, <1>13,
     <1>14, <1>15, <1>16, <1>17 DEF Next, WorkerStep, ApproverStep

(* A pending fix whose source file was changed never becomes a pull        *)
(* request, whoever clicks and whatever fails (validatePendingFixFresh).   *)
THEOREM StaleNeverOpens == Spec => StaleApprovalRefused
<1>1. ASSUME NEW p \in Plan PROVE Spec => [](StalePending(p) => [](pr[p] = "none"))
  <2>1. IInv => (StalePending(p) => Doomed(p))
    BY StaleIsDoomed
  <2>2. IInv /\ Doomed(p) /\ [Next]_vars => Doomed(p)'
    BY DoomedStays
  <2>3. Doomed(p) => pr[p] = "none"
    BY DEF Doomed
  <2> QED
    BY <2>1, <2>2, <2>3, Invariance, PTL DEF Spec
<1> QED
  BY <1>1 DEF StaleApprovalRefused

-----------------------------------------------------------------------------
(* One monitor works off a list of regressions whose rows nobody else      *)
(* writes, and takes each from the list before it writes its row.          *)
OneMonitor == \A m, n \in Monitor : m = n
Worklist ==
    \A m \in Monitor : pc[m] \in {"revert", "settle_revert"} =>
        \A p \in todo[m] : row[p] = "production_failed" /\ cur[m] # p

(* A regression's row is overwritten by the monitor that settles it only.  *)
LEMMA RowsWritten ==
  ASSUME IInv, [Next]_vars, NEW p \in Plan, row[p] = "production_failed", row'[p] # row[p]
  PROVE  \E m \in Monitor : pc[m] \in {"settle", "settle_revert"} /\ cur[m] = p
<1> SUFFICES ASSUME Next
             PROVE  \E m \in Monitor : pc[m] \in {"settle", "settle_revert"} /\ cur[m] = p
  BY DEF vars, rowVars
<1> USE DEF IInv, TypeOK, Owns, OwnerControl, DraftStatus
<1>1. ASSUME NEW w \in Worker, SavePlan(w) PROVE FALSE
  BY <1>1, SavedPlan DEF SavePlan, SaveRow, DraftInv, Drafts, Untouched
<1>2. ASSUME NEW w \in Worker, RecordPR(w) \/ SkipPlan(w) \/ StopBatch(w) PROVE FALSE
  <2>1. cur[w] \in Plan /\ Owns(w, cur[w])
    BY <1>2 DEF RecordPR, SkipPlan, StopBatch, ControlInv, Actor, Submitter
  <2>2. row[cur[w]] \in DraftStatus
    BY <2>1 DEF WorkerOwnerInv
  <2> QED
    BY <1>2, <2>1, <2>2 DEF RecordPR, SkipPlan, StopBatch, MarkOrLose, Mark, rowVars
<1>3. ASSUME NEW a \in Approver, RecordApproval(a) PROVE FALSE
  <2>1. cur[a] \in Plan /\ Owns(a, cur[a])
    BY <1>3 DEF RecordApproval, ControlInv, Actor, Submitter
  <2>2. row[cur[a]] \in DraftStatus
    BY <2>1 DEF ApproverOwnerInv
  <2> QED
    BY <1>3, <2>1, <2>2 DEF RecordApproval, MarkOrLose, Mark, rowVars
<1>4. ASSUME NEW m \in Monitor, SettlePR(m) \/ SettleRevert(m)
      PROVE  pc[m] \in {"settle", "settle_revert"} /\ cur[m] = p
  BY <1>4 DEF SettlePR, SettleRevert, MarkOrLose, Mark, rowVars
<1> QED
  BY <1>1, <1>2, <1>3, <1>4
  DEF Next, WorkerStep, ApproverStep, MonitorStep, Generate, FilterByHistory,
      FilterByProvider, NothingLeft, ChooseMode, BatchDone, StoreFix, Announce,
      VerifySource, CheckLimit, CreatePR, Click, HandlerReturns, Take, VerifyPending,
      CreateApprovedPR, CrashApprover, MonitorStart, PollPR, Observe, MonitorReverts,
      OpenRevert, MonitorEnd, CleanupExpired, Merge, Close, EditSource, Tick, CrashLeader,
      rowVars

(* The list of one monitor stays true while it is worked through.          *)
LEMMA WorklistStays ==
  ASSUME OneMonitor, IInv, Worklist, [Next]_vars
  PROVE  Worklist'
<1> USE ActorsAssumption, PlanAssumption
        DEF IInv, TypeOK, Goto, Submitter, Actor, planVars, rowVars, fixVars, vcsVars, actorVars
<1> SUFFICES ASSUME NEW m \in Monitor, pc'[m] \in {"revert", "settle_revert"},
                    NEW p \in todo'[m]
             PROVE  row'[p] = "production_failed" /\ cur'[m] # p
  BY DEF Worklist
<1>1. CASE MonitorStep(m)
  <2>1. CASE MonitorReverts(m)
    BY <1>1, <2>1 DEF MonitorReverts, ControlInv
  <2>2. CASE OpenRevert(m)
    BY <1>1, <2>2 DEF OpenRevert, Settle, Worklist
  <2>3. CASE SettleRevert(m)
    <3>1. p \in todo[m] /\ p \in Plan /\ row[p] = "production_failed" /\ cur[m] # p /\ cur'[m] = NoPlan
      BY <2>3 DEF SettleRevert, Worklist
    <3> QED
      BY <2>3, <3>1 DEF SettleRevert, MarkOrLose, Mark
  <2> QED
    BY <1>1, <2>1, <2>2, <2>3
    DEF MonitorStep, MonitorStart, PollPR, Observe, SettlePR, MonitorEnd, Settle
<1>2. CASE ~MonitorStep(m) /\ Next
  <2>1. pc'[m] = pc[m] /\ todo'[m] = todo[m] /\ cur'[m] = cur[m]
    <3>1. ASSUME NEW w \in Worker, SavePlan(w)
          PROVE  pc'[m] = pc[m] /\ todo'[m] = todo[m] /\ cur'[m] = cur[m]
      <4>1. PICK q \in batch[w] : Saved(w, q)
        BY <3>1, SavedPlan
      <4>2. todo' = todo /\ m # w
        BY <3>1 DEF SavePlan
      <4> QED
        BY <4>1, <4>2 DEF Saved
    <3>2. CASE CrashLeader
      BY <3>2 DEF CrashLeader, Stopped
    <3>3. ASSUME NEW w \in Worker,
                 Generate(w) \/ (WorkerStep(w) /\ ~SavePlan(w))
          PROVE  pc'[m] = pc[m] /\ todo'[m] = todo[m] /\ cur'[m] = cur[m]
      BY <3>3
      DEF WorkerStep, Generate, FilterByHistory, FilterByProvider, NothingLeft, ChooseMode,
          BatchDone, StoreFix, Announce, VerifySource, CheckLimit, CreatePR, RecordPR,
          SkipPlan, StopBatch
    <3>4. ASSUME NEW a \in Approver,
                 Click(a) \/ HandlerReturns(a) \/ ApproverStep(a) \/ CrashApprover(a)
          PROVE  pc'[m] = pc[m] /\ todo'[m] = todo[m] /\ cur'[m] = cur[m]
      BY <3>4
      DEF ApproverStep, Click, HandlerReturns, Take, VerifyPending, CreateApprovedPR,
          RecordApproval, GiveUp, CrashApprover, Stopped
    <3> QED
      BY <1>2, <3>1, <3>2, <3>3, <3>4
      DEF Next, CleanupExpired, Merge, Close, EditSource, Tick, OneMonitor
  <2>2. row[p] = "production_failed" /\ cur[m] # p /\ p \in Plan
    BY <2>1 DEF Worklist
  <2>3. row'[p] = row[p]
    BY <2>1, <2>2, RowsWritten DEF OneMonitor
  <2> QED
    BY <2>1, <2>2, <2>3
<1>3. CASE UNCHANGED vars
  BY <1>3 DEF vars, Worklist
<1> QED
  BY <1>1, <1>2, <1>3

(* A revert is opened for an entry of that list.                           *)
LEMMA RevertsAnswer ==
  ASSUME IInv, Worklist, [Next]_vars
  PROVE  [\A p \in Plan : reverts'[p] # reverts[p] => row[p] = "production_failed"]_reverts
<1> SUFFICES ASSUME Next, NEW p \in Plan, reverts'[p] # reverts[p]
             PROVE  row[p] = "production_failed"
  BY DEF vars, vcsVars
<1>1. \E m \in Monitor : OpenRevert(m)
  BY DEF Next, WorkerStep, ApproverStep, MonitorStep, Generate, FilterByHistory,
      FilterByProvider, NothingLeft, ChooseMode, SavePlan, BatchDone, StoreFix, Announce,
      VerifySource, CheckLimit, CreatePR, RecordPR, SkipPlan, StopBatch, Click,
      HandlerReturns, Take, VerifyPending, CreateApprovedPR, RecordApproval, CrashApprover,
      MonitorStart, PollPR, Observe, SettlePR, MonitorReverts, SettleRevert, MonitorEnd,
      CleanupExpired, Merge, Close, EditSource, Tick, CrashLeader, vcsVars
<1> QED
  BY <1>1 DEF OpenRevert, CountRevert, Worklist, IInv, TypeOK

(* With one monitor a revert answers a regression that its row records,    *)
(* whatever calls fail (openRevertPR).                                     *)
THEOREM RevertsAnswerOnce ==
  ASSUME OneMonitor
  PROVE  Spec => RevertedOnce
<1>1. Init => Worklist
  BY DEF Init, Worklist, Actor
<1>2. IInv /\ Worklist /\ [Next]_vars => Worklist'
  BY OneMonitor, WorklistStays
<1>3. IInv /\ Worklist /\ [Next]_vars
        => [\A p \in Plan : reverts'[p] # reverts[p] => row[p] = "production_failed"]_reverts
  BY RevertsAnswer
<1> QED
  BY <1>1, <1>2, <1>3, Invariance, PTL DEF Spec, RevertedOnce

-----------------------------------------------------------------------------
(* One goroutine runs handleRemediation, and every row is written.  A plan *)
(* is live while a pull request may still be opened for it.                *)
OneWorker == \A v, w \in Worker : v = w
RowsAreWritten == HasDB /\ "db" \notin Faults /\ "commit" \notin Faults

Asking(p) == fix[p] \in {"unannounced", "pending"}
Approved(p) == \E a \in Approver : cur[a] = p /\ pc[a] \in {"verify", "create"}
InHand(p) ==
    \E w \in Worker :
        \/ p \in batch[w]
        \/ cur[w] = p /\ pc[w] \in {"store", "announce", "verify", "limit", "create"}
Live(p) == Asking(p) \/ Approved(p) \/ InHand(p)

(* A plan that waits for an approval or has one says so in its row, which  *)
(* the filter reads; a batch is stopped on account of the limit only.      *)
AskingKnown ==
    /\ \A p \in Plan : Asking(p) \/ Approved(p) => row[p] = "pending_approval"
    /\ \A w \in Worker : pc[w] \in {"store", "announce"} => row[cur[w]] = "pending_approval"
    /\ \A w \in Worker : pc[w] = "stop" => mode[cur[w]] = "auto-fix"

Rivals(p, q) == p # q /\ target[p] = target[q] /\ target[p] # NoTarget
BatchDistinct == \A w \in Worker : \A p, q \in Drafts(w) : ~Rivals(p, q)
FilterSeesRivals ==
    \A w \in Worker : pc[w] = "provider" =>
        \A q \in Plan : Rivals(cur[w], q) => ~Live(q)
LiveAlone ==
    \A p, q \in Plan : Live(p) /\ Rivals(p, q) => ~Live(q) /\ pr[q] # "open"

DupInv == AskingKnown /\ BatchDistinct /\ FilterSeesRivals /\ LiveAlone

(* Nothing is live at the start.                                           *)
LEMMA DupInvInit == Init => DupInv
  BY ActorsAssumption
  DEF Init, DupInv, AskingKnown, BatchDistinct, FilterSeesRivals, LiveAlone, Live, Asking,
      Approved, InHand, Drafts, Rivals, Actor, Submitter

(* A plan that is not in use yet is not live, and its identity is not seen *)
(* by any filter.                                                          *)
LEMMA UnusedNotLive ==
  ASSUME IInv, NEW p \in Plan, target[p] = NoTarget
  PROVE  ~Live(p) /\ pr[p] = "none"
<1> USE DEF IInv
<1>1. Untouched(p) /\ \A a \in Submitter : ~Owns(a, p)
  BY DEF UnusedInv
<1>2. ~InHand(p)
  BY <1>1 DEF InHand, Owns, OwnerControl, Submitter, DraftInv, Drafts
<1>3. ~Approved(p)
  BY <1>1 DEF Approved, Owns, OwnerControl, Submitter
<1> QED
  BY <1>1, <1>2, <1>3 DEF Live, Asking, Untouched

(* Only the filter makes a plan live, and only when it found no open pull  *)
(* request for the target.                                                 *)
Admitted(w, p) == FilterByProvider(w) /\ p = cur[w] /\ ~OpenPRExists(p)

(* A fix that waits was stored for a plan in hand.                         *)
LEMMA AskingFrom ==
  ASSUME IInv, Next, NEW p \in Plan, Asking(p)'
  PROVE  Asking(p) \/ InHand(p)
<1> USE DEF IInv, TypeOK, Asking, fixVars
<1>1. ASSUME NEW w \in Worker, StoreFix(w) \/ Announce(w) PROVE Asking(p) \/ InHand(p)
  BY <1>1 DEF StoreFix, Announce, InHand
<1> QED
  BY <1>1
  DEF Next, WorkerStep, ApproverStep, MonitorStep, Generate, FilterByHistory,
      FilterByProvider, NothingLeft, ChooseMode, SavePlan, BatchDone, VerifySource,
      CheckLimit, CreatePR, RecordPR, SkipPlan, StopBatch, Click, HandlerReturns, Take,
      VerifyPending, CreateApprovedPR, RecordApproval, CrashApprover, MonitorStart, PollPR,
      Observe, SettlePR, MonitorReverts, OpenRevert, SettleRevert, MonitorEnd,
      CleanupExpired, Merge, Close, EditSource, Tick, CrashLeader

(* An approved plan was asked for.                                         *)
LEMMA ApprovedFrom ==
  ASSUME IInv, Next, NEW p \in Plan, Approved(p)'
  PROVE  Approved(p) \/ Asking(p)
<1> USE ActorsAssumption DEF IInv, TypeOK, Submitter, Actor, Goto, actorVars
<1>1. PICK a \in Approver : cur'[a] = p /\ pc'[a] \in {"verify", "create"}
  BY DEF Approved
<1>2. CASE cur[a] = p /\ pc[a] \in {"verify", "create"}
  BY <1>2 DEF Approved
<1>3. CASE Take(a)
  BY <1>1, <1>3 DEF Take, GiveUp, Asking
<1>4. CASE ~Take(a)
  <2>1. ASSUME NEW w \in Worker, SavePlan(w) PROVE cur'[a] = cur[a] /\ pc'[a] = pc[a]
    BY <2>1, SavedPlan DEF Saved
  <2>2. ASSUME NEW w \in Worker, Generate(w) \/ (WorkerStep(w) /\ ~SavePlan(w))
        PROVE  cur'[a] = cur[a] /\ pc'[a] = pc[a]
    BY <2>2
    DEF WorkerStep, Generate, FilterByHistory, FilterByProvider, NothingLeft, ChooseMode,
        BatchDone, StoreFix, Announce, VerifySource, CheckLimit, CreatePR, RecordPR,
        SkipPlan, StopBatch
  <2>3. ASSUME NEW b \in Approver, ~Take(a),
               Click(b) \/ HandlerReturns(b) \/ ApproverStep(b) \/ CrashApprover(b)
        PROVE  cur[a] = p /\ pc[a] \in {"verify", "create"}
    BY <1>1, <2>3
    DEF ApproverStep, Click, HandlerReturns, Take, VerifyPending, CreateApprovedPR,
        RecordApproval, GiveUp, CrashApprover, Stopped
  <2>4. ASSUME NEW m \in Monitor, MonitorStep(m) PROVE cur'[a] = cur[a] /\ pc'[a] = pc[a]
    BY <2>4
    DEF MonitorStep, MonitorStart, PollPR, Observe, SettlePR, MonitorReverts, OpenRevert,
        SettleRevert, MonitorEnd, Settle
  <2>5. CASE CrashLeader
    BY <1>1, <2>5 DEF CrashLeader, Stopped, Approved
  <2> QED
    BY <1>1, <1>4, <2>1, <2>2, <2>3, <2>4, <2>5
    DEF Next, Approved, CleanupExpired, Merge, Close, EditSource, Tick
<1> QED
  BY <1>3, <1>4

(* A plan in hand has passed both halves of the filter.                    *)
LEMMA InHandFrom ==
  ASSUME IInv, Next, NEW p \in Plan, InHand(p)'
  PROVE  InHand(p) \/ \E w \in Worker : Admitted(w, p)
<1> USE ActorsAssumption DEF IInv, TypeOK, Submitter, Actor, Goto, actorVars
<1> DEFINE Has(w) ==
      p \in batch[w] \/ (cur[w] = p /\ pc[w] \in {"store", "announce", "verify", "limit", "create"})
<1>1. PICK w \in Worker : Has(w)'
  BY DEF InHand
<1>2. Has(w) => InHand(p)
  BY DEF InHand
<1> SUFFICES ASSUME ~Has(w) PROVE \E v \in Worker : Admitted(v, p)
  BY <1>2
<1>3. ASSUME NEW v \in Worker, SavePlan(v) PROVE FALSE
  <2>1. PICK q \in batch[v] : Saved(v, q) /\ batch' = [batch EXCEPT ![v] = @ \ {q}]
    BY <1>3, SavedPlan
  <2> QED
    BY <1>1, <2>1 DEF Saved
<1>4. ASSUME NEW v \in Worker, FilterByProvider(v) PROVE Admitted(v, p)
  BY <1>1, <1>4 DEF FilterByProvider, Admitted
<1>5. ASSUME NEW v \in Worker, Generate(v) \/ FilterByHistory(v) \/ NothingLeft(v) \/ ChooseMode(v)
                               \/ BatchDone(v) \/ StoreFix(v) \/ Announce(v)
      PROVE  FALSE
  BY <1>1, <1>5 DEF Generate, FilterByHistory, NothingLeft, ChooseMode, BatchDone, StoreFix, Announce
<1>6. ASSUME NEW v \in Worker, VerifySource(v) \/ CheckLimit(v) \/ CreatePR(v) \/ RecordPR(v)
                               \/ SkipPlan(v) \/ StopBatch(v)
      PROVE  FALSE
  BY <1>1, <1>6 DEF VerifySource, CheckLimit, CreatePR, RecordPR, SkipPlan, StopBatch
<1>7. ASSUME NEW b \in Approver,
             Click(b) \/ HandlerReturns(b) \/ ApproverStep(b) \/ CrashApprover(b)
      PROVE  FALSE
  BY <1>1, <1>7
  DEF ApproverStep, Click, HandlerReturns, Take, VerifyPending, CreateApprovedPR,
      RecordApproval, GiveUp, CrashApprover, Stopped
<1>8. ASSUME NEW m \in Monitor, MonitorStep(m) PROVE FALSE
  BY <1>1, <1>8
  DEF MonitorStep, MonitorStart, PollPR, Observe, SettlePR, MonitorReverts, OpenRevert,
      SettleRevert, MonitorEnd, Settle
<1>9. CASE CrashLeader
  BY <1>1, <1>9 DEF CrashLeader, Stopped
<1> QED
  BY <1>1, <1>3, <1>4, <1>5, <1>6, <1>7, <1>8, <1>9
  DEF Next, WorkerStep, CleanupExpired, Merge, Close, EditSource, Tick

(* The three ways of being live come from one another or the filter.       *)
LEMMA LiveFrom ==
  ASSUME IInv, Next, NEW p \in Plan, Live(p)', ~Live(p)
  PROVE  \E w \in Worker : Admitted(w, p)
  BY AskingFrom, ApprovedFrom, InHandFrom DEF Live

(* A pull request is opened for a live plan.                               *)
LEMMA OpenedLive ==
  ASSUME IInv, Next, NEW p \in Plan, pr'[p] = "open", pr[p] # "open"
  PROVE  Live(p)
<1> USE DEF IInv, TypeOK, vcsVars
<1>1. ASSUME NEW w \in Worker, CreatePR(w) PROVE Live(p)
  BY <1>1 DEF CreatePR, Live, InHand
<1>2. ASSUME NEW a \in Approver, CreateApprovedPR(a) PROVE Live(p)
  BY <1>2 DEF CreateApprovedPR, Live, Approved
<1> QED
  BY <1>1, <1>2
  DEF Next, WorkerStep, ApproverStep, MonitorStep, Generate, FilterByHistory,
      FilterByProvider, NothingLeft, ChooseMode, SavePlan, BatchDone, StoreFix, Announce,
      VerifySource, CheckLimit, RecordPR, SkipPlan, StopBatch, Click, HandlerReturns, Take,
      VerifyPending, RecordApproval, CrashApprover, MonitorStart, PollPR, Observe, SettlePR,
      MonitorReverts, OpenRevert, SettleRevert, MonitorEnd, CleanupExpired, Merge, Close,
      EditSource, Tick, CrashLeader

(* A plan keeps its target or loses it, unless it had none.                *)
LEMMA TargetsKept ==
  ASSUME IInv, Next, NEW p \in Plan
  PROVE  \/ target'[p] \in {target[p], NoTarget}
         \/ target[p] = NoTarget /\ \E w \in Worker : Generate(w)
<1> USE DEF IInv, TypeOK, planVars
<1>1. ASSUME NEW w \in Worker, Generate(w), target[p] # NoTarget PROVE target'[p] = target[p]
  BY <1>1 DEF Generate
<1>2. ASSUME NEW w \in Worker, FilterByHistory(w) \/ FilterByProvider(w) \/ StopBatch(w)
      PROVE  target'[p] \in {target[p], NoTarget}
  BY <1>2 DEF FilterByHistory, FilterByProvider, StopBatch, Release
<1>3. ASSUME NEW w \in Worker, SavePlan(w) PROVE target' = target
  BY <1>3 DEF SavePlan
<1>4. CASE CrashLeader
  BY <1>4 DEF CrashLeader, Release
<1> QED
  BY <1>1, <1>2, <1>3, <1>4
  DEF Next, WorkerStep, ApproverStep, MonitorStep, NothingLeft, ChooseMode, BatchDone,
      StoreFix, Announce, VerifySource, CheckLimit, CreatePR, RecordPR, SkipPlan, Click,
      HandlerReturns, Take, VerifyPending, CreateApprovedPR, RecordApproval, CrashApprover,
      MonitorStart, PollPR, Observe, SettlePR, MonitorReverts, OpenRevert, SettleRevert,
      MonitorEnd, CleanupExpired, Merge, Close, EditSource, Tick

(* The filter admits a plan only if no rival is live or open, and a pull   *)
(* request that opens was live before.                                     *)
LEMMA LiveAloneStays ==
  ASSUME OneWorker, IInv, DupInv, Next
  PROVE  LiveAlone'
<1> SUFFICES ASSUME NEW p \in Plan, NEW q \in Plan, Live(p)', Rivals(p, q)'
             PROVE  ~Live(q)' /\ pr'[q] # "open"
  BY DEF LiveAlone
<1>0. p # q /\ target'[p] = target'[q] /\ target'[p] # NoTarget
  BY DEF Rivals
<1>1. CASE Live(p)
  <2>1. target[p] # NoTarget /\ target'[p] = target[p]
    BY <1>0, <1>1, UnusedNotLive, TargetsKept
  <2>2. CASE target[q] = NoTarget
    <3>1. ~Live(q) /\ pr[q] = "none"
      BY <2>2, UnusedNotLive
    <3>2. ~Live(q)'
      <4> SUFFICES ASSUME NEW w \in Worker, Admitted(w, q) PROVE FALSE
        BY <3>1, LiveFrom
      <4> QED
        BY <2>2 DEF Admitted, FilterByProvider, IInv, ControlInv, DraftInv, Drafts
    <3> QED
      BY <3>1, <3>2, OpenedLive
  <2>3. CASE target[q] # NoTarget
    <3>1. Rivals(p, q) /\ Rivals(q, p)
      BY <1>0, <2>1, <2>3, TargetsKept DEF Rivals
    <3>2. ~Live(q) /\ pr[q] # "open"
      BY <1>1, <3>1 DEF DupInv, LiveAlone
    <3>3. ~Live(q)'
      <4> SUFFICES ASSUME NEW w \in Worker, Admitted(w, q) PROVE FALSE
        BY <3>2, LiveFrom
      <4> QED
        BY <1>1, <3>1 DEF Admitted, FilterByProvider, DupInv, FilterSeesRivals
    <3> QED
      BY <3>2, <3>3, OpenedLive
  <2> QED
    BY <2>2, <2>3
<1>2. CASE ~Live(p)
  <2>1. PICK w \in Worker : Admitted(w, p)
    BY <1>2, LiveFrom
  <2>2. target'[p] = target[p] /\ target'[q] = target[q] /\ pr' = pr
    BY <1>0, <2>1 DEF Admitted, FilterByProvider, Release, IInv, TypeOK, planVars
  <2>3. ~Live(q) /\ pr[q] # "open"
    BY <1>0, <2>1, <2>2
    DEF Admitted, FilterByProvider, DupInv, FilterSeesRivals, Rivals, OpenPRExists
  <2>4. ~Live(q)'
    BY <1>0, <2>1, <2>3, LiveFrom DEF Admitted, OneWorker
  <2> QED
    BY <2>2, <2>3, <2>4
<1> QED
  BY <1>1, <1>2

-----------------------------------------------------------------------------
(* A filter that has passed the history has seen the rows of all rivals.   *)
LEMMA ProviderFrom ==
  ASSUME OneWorker, IInv, Next, NEW w \in Worker, pc'[w] = "provider"
  PROVE  /\ \A v \in Worker : ~FilterByProvider(v) /\ ~Generate(v)
         /\ \/ FilterByHistory(w) /\ cur'[w] \in todo[w] /\ ~KnownActive(cur'[w])
                                  /\ target' = target /\ pc[w] = "history"
            \/ pc[w] = "provider" /\ cur'[w] = cur[w]
<1> USE ActorsAssumption DEF IInv, TypeOK, Submitter, Actor, Goto, actorVars, planVars, OneWorker
<1>1. ASSUME NEW v \in Worker, SavePlan(v) PROVE FALSE
  <2>1. PICK q \in batch[v] : Saved(v, q)
    BY <1>1, SavedPlan
  <2>2. pc[w] = "save"
    BY <1>1 DEF SavePlan
  <2> QED
    BY <2>1, <2>2 DEF Saved
<1>2. ASSUME NEW v \in Worker, Generate(v) \/ FilterByProvider(v) PROVE FALSE
  BY <1>2 DEF Generate, FilterByProvider
<1>3. ASSUME NEW v \in Worker, FilterByHistory(v)
      PROVE  /\ FilterByHistory(w) /\ cur'[w] \in todo[w] /\ ~KnownActive(cur'[w])
             /\ target' = target /\ pc[w] = "history"
  BY <1>3 DEF FilterByHistory
<1>4. ASSUME NEW v \in Worker, WorkerStep(v), ~SavePlan(v), ~FilterByHistory(v), ~FilterByProvider(v)
      PROVE  FALSE
  BY <1>4
  DEF WorkerStep, NothingLeft, ChooseMode, BatchDone, StoreFix, Announce, VerifySource,
      CheckLimit, CreatePR, RecordPR, SkipPlan, StopBatch
<1>5. ASSUME NEW b \in Approver,
             Click(b) \/ HandlerReturns(b) \/ ApproverStep(b) \/ CrashApprover(b)
      PROVE  pc[w] = "provider" /\ cur'[w] = cur[w]
  BY <1>5
  DEF ApproverStep, Click, HandlerReturns, Take, VerifyPending, CreateApprovedPR,
      RecordApproval, GiveUp, CrashApprover, Stopped
<1>6. ASSUME NEW m \in Monitor, MonitorStep(m) PROVE pc[w] = "provider" /\ cur'[w] = cur[w]
  BY <1>6
  DEF MonitorStep, MonitorStart, PollPR, Observe, SettlePR, MonitorReverts, OpenRevert,
      SettleRevert, MonitorEnd, Settle
<1>7. CASE CrashLeader
  BY <1>7 DEF CrashLeader, Stopped
<1> QED
  BY <1>1, <1>2, <1>3, <1>4, <1>5, <1>6, <1>7
  DEF Next, CleanupExpired, Merge, Close, EditSource, Tick

(* The history look-up finds the rivals that wait; the others are in the   *)
(* worker's own hands, where targets differ.                               *)
LEMMA FilterSeesRivalsStays ==
  ASSUME OneWorker, RowsAreWritten, IInv, DupInv, Next
  PROVE  FilterSeesRivals'
<1> SUFFICES ASSUME NEW w \in Worker, pc'[w] = "provider", NEW q \in Plan, Rivals(cur[w], q)'
             PROVE  ~Live(q)'
  BY DEF FilterSeesRivals
<1>1. Live(q)' => Live(q)
  BY ProviderFrom, LiveFrom DEF Admitted
<1>2. CASE /\ cur'[w] \in todo[w] /\ ~KnownActive(cur'[w])
           /\ target' = target /\ pc[w] = "history"
  <2> DEFINE p == cur'[w]
  <2>1. p \in Drafts(w) /\ Rivals(p, q)
    BY <1>2 DEF Drafts, Rivals
  <2>2. row[q] # "pending_approval"
    BY <1>2, <2>1 DEF KnownActive, ActiveRow, RowsAreWritten, Rivals
  <2>3. ~Asking(q) /\ ~Approved(q)
    BY <2>2 DEF DupInv, AskingKnown
  <2>4. ~InHand(q)
    BY <1>2, <2>1 DEF InHand, OneWorker, DupInv, BatchDistinct, Drafts
  <2> QED
    BY <1>1, <2>3, <2>4 DEF Live
<1>3. CASE pc[w] = "provider" /\ cur'[w] = cur[w]
  <2>1. cur[w] \in Plan
    BY <1>3 DEF IInv, ControlInv, TypeOK, Actor, Submitter
  <2>2. Rivals(cur[w], q)
    BY <1>3, <2>1, ProviderFrom, TargetsKept DEF Rivals
  <2> QED
    BY <1>1, <1>3, <2>2 DEF DupInv, FilterSeesRivals
<1> QED
  BY <1>2, <1>3, ProviderFrom

(* Only Generate gives a worker new drafts.                                *)
LEMMA DraftsFrom ==
  ASSUME IInv, Next, NEW w \in Worker, ~Generate(w)
  PROVE  Drafts(w)' \subseteq Drafts(w)
<1> USE ActorsAssumption DEF IInv, TypeOK, Submitter, Actor, Goto, actorVars, Drafts
<1>1. ASSUME NEW v \in Worker, SavePlan(v) PROVE Drafts(w)' \subseteq Drafts(w)
  BY <1>1, SavedPlan DEF SavePlan
<1>2. ASSUME NEW v \in Worker, Generate(v) PROVE Drafts(w)' \subseteq Drafts(w)
  BY <1>2 DEF Generate
<1>3. ASSUME NEW v \in Worker, FilterByProvider(v) PROVE Drafts(w)' \subseteq Drafts(w)
  BY <1>3 DEF FilterByProvider, ControlInv
<1>4. ASSUME NEW v \in Worker, FilterByHistory(v) \/ StopBatch(v)
      PROVE  Drafts(w)' \subseteq Drafts(w)
  <2>1. CASE FilterByHistory(v)
    <3>1. batch' = batch
      BY <2>1 DEF FilterByHistory
    <3>2. PICK p \in todo[v] : todo' = [todo EXCEPT ![v] = @ \ {p}] \/ todo' = todo
      BY <2>1 DEF FilterByHistory
    <3>3. todo'[w] \subseteq todo[w]
      BY <3>2
    <3> QED
      BY <3>1, <3>3
  <2>2. CASE StopBatch(v)
    <3>1. todo' = todo /\ batch'[w] \subseteq batch[w]
      BY <2>2 DEF StopBatch
    <3> QED
      BY <3>1
  <2> QED
    BY <1>4, <2>1, <2>2
<1>5. ASSUME NEW v \in Worker, NothingLeft(v) \/ ChooseMode(v) \/ BatchDone(v) \/ StoreFix(v)
                               \/ Announce(v) \/ VerifySource(v) \/ CheckLimit(v)
                               \/ CreatePR(v) \/ RecordPR(v) \/ SkipPlan(v)
      PROVE  Drafts(w)' \subseteq Drafts(w)
  BY <1>5
  DEF NothingLeft, ChooseMode, BatchDone, StoreFix, Announce, VerifySource, CheckLimit,
      CreatePR, RecordPR, SkipPlan
<1>6. ASSUME NEW b \in Approver,
             Click(b) \/ HandlerReturns(b) \/ ApproverStep(b) \/ CrashApprover(b)
      PROVE  Drafts(w)' \subseteq Drafts(w)
  BY <1>6
  DEF ApproverStep, Click, HandlerReturns, Take, VerifyPending, CreateApprovedPR,
      RecordApproval, GiveUp, CrashApprover, Stopped
<1>7. ASSUME NEW m \in Monitor, MonitorStep(m) PROVE Drafts(w)' \subseteq Drafts(w)
  <2>1. m # w
    OBVIOUS
  <2>2. todo'[w] = todo[w] /\ batch'[w] = batch[w]
    BY <1>7, <2>1
    DEF MonitorStep, MonitorStart, PollPR, Observe, SettlePR, MonitorReverts, OpenRevert,
        SettleRevert, MonitorEnd
  <2> QED
    BY <2>2
<1>8. CASE CrashLeader
  BY <1>8 DEF CrashLeader, Stopped
<1> QED
  BY <1>1, <1>2, <1>3, <1>4, <1>5, <1>6, <1>7, <1>8
  DEF Next, WorkerStep, CleanupExpired, Merge, Close, EditSource, Tick

(* Generate draws distinct targets.                                        *)
LEMMA BatchDistinctStays ==
  ASSUME OneWorker, IInv, DupInv, Next
  PROVE  BatchDistinct'
<1> SUFFICES ASSUME NEW w \in Worker, NEW p \in Drafts(w)', NEW q \in Drafts(w)', Rivals(p, q)'
             PROVE  FALSE
  BY DEF BatchDistinct
<1>1. CASE Generate(w)
  BY <1>1 DEF Generate, Drafts, Rivals, IInv, ControlInv, TypeOK, Actor, Submitter
<1>2. CASE ~Generate(w)
  <2>1. p \in Drafts(w) /\ q \in Drafts(w)
    BY <1>2, DraftsFrom
  <2>2. p \in Plan /\ q \in Plan /\ target[p] # NoTarget /\ target[q] # NoTarget
    BY <2>1 DEF IInv, DraftInv, Drafts, TypeOK, Actor, Submitter
  <2>3. Rivals(p, q)
    BY <2>2, TargetsKept DEF Rivals
  <2> QED
    BY <2>1, <2>3 DEF DupInv, BatchDistinct
<1> QED
  BY <1>1, <1>2

(* A row that waits for an approval is written by the owner of its plan    *)
(* only, which has the approval and is done with it.                       *)
LEMMA WaitingRowKept ==
  ASSUME IInv, Next, NEW p \in Plan, row[p] = "pending_approval", row'[p] # row[p]
  PROVE  \E a \in Submitter : cur[a] = p /\ pc[a] \in {"record", "skip", "stop"}
<1> USE DEF IInv, TypeOK
<1>1. ASSUME NEW w \in Worker, SavePlan(w) PROVE FALSE
  BY <1>1, SavedPlan DEF SaveRow, DraftInv, Drafts, Untouched
<1>2. ASSUME NEW w \in Worker, RecordPR(w) \/ SkipPlan(w) \/ StopBatch(w)
      PROVE  cur[w] = p /\ pc[w] \in {"record", "skip", "stop"}
  BY <1>2 DEF RecordPR, SkipPlan, StopBatch, MarkOrLose, Mark, rowVars
<1>3. ASSUME NEW a \in Approver, RecordApproval(a)
      PROVE  cur[a] = p /\ pc[a] \in {"record", "skip", "stop"}
  BY <1>3 DEF RecordApproval, MarkOrLose, Mark, rowVars
<1>4. ASSUME NEW m \in Monitor, SettlePR(m) \/ SettleRevert(m) PROVE FALSE
  <2>1. cur[m] = p /\ pc[m] \in {"settle", "settle_revert"}
    BY <1>4 DEF SettlePR, SettleRevert, MarkOrLose, Mark, rowVars
  <2> QED
    BY <2>1 DEF MonitorInv, Submitted, MergedStatus
<1> QED
  BY <1>1, <1>2, <1>3, <1>4
  DEF Next, WorkerStep, ApproverStep, MonitorStep, Generate, FilterByHistory,
      FilterByProvider, NothingLeft, ChooseMode, BatchDone, StoreFix, Announce,
      VerifySource, CheckLimit, CreatePR, Click, HandlerReturns, Take, VerifyPending,
      CreateApprovedPR, CrashApprover, MonitorStart, PollPR, Observe, MonitorReverts,
      OpenRevert, MonitorEnd, CleanupExpired, Merge, Close, EditSource, Tick, CrashLeader,
      rowVars, Submitter

(* Nobody records a plan that still waits for an approval or has just got  *)
(* one.                                                                    *)
LEMMA WaitingNotRecorded ==
  ASSUME IInv, DupInv, NEW p \in Plan, Asking(p) \/ Approved(p),
         NEW a \in Submitter, cur[a] = p, pc[a] \in {"record", "skip", "stop"}
  PROVE  FALSE
<1> USE ActorsAssumption DEF IInv, TypeOK, Submitter, Actor
<1>1. Owns(a, p)
  BY DEF Owns, OwnerControl
<1>2. CASE Asking(p)
  <2>1. a \in Approver => FALSE
    BY <1>1, <1>2 DEF ApproverOwnerInv, Asking
  <2>2. a \in Worker => mode[p] = "auto-fix"
    BY <1>1 DEF WorkerOwnerInv, DupInv, AskingKnown
  <2> QED
    BY <1>2, <2>1, <2>2 DEF ModeInv, Asking
<1>3. CASE Approved(p)
  <2>1. PICK b \in Approver : cur[b] = p /\ pc[b] \in {"verify", "create"}
    BY <1>3 DEF Approved
  <2>2. Owns(b, p)
    BY <2>1 DEF Owns, OwnerControl
  <2> QED
    BY <1>1, <2>1, <2>2 DEF SoleOwner
<1> QED
  BY <1>2, <1>3

(* At store and announce the worker has just written the row.              *)
LEMMA StoringFrom ==
  ASSUME RowsAreWritten, IInv, Next, NEW w \in Worker, pc'[w] \in {"store", "announce"}
  PROVE  \/ row'[cur'[w]] = "pending_approval" /\ SavePlan(w)
         \/ pc[w] \in {"store", "announce"} /\ cur'[w] = cur[w]
<1> USE ActorsAssumption DEF IInv, TypeOK, Submitter, Actor, Goto, actorVars
<1>1. ASSUME NEW v \in Worker, SavePlan(v), v = w
      PROVE  row'[cur'[w]] = "pending_approval"
  <2>1. PICK q \in batch[w] :
           /\ Saved(w, q)
           /\ SaveRow(q, IF mode[q] = "click-to-fix" THEN "pending_approval" ELSE "generated")
    BY <1>1, SavedPlan
  <2>2. pc[w] = "save" /\ q \in Plan
    BY <1>1, <2>1 DEF SavePlan
  <2>3. mode[q] = "click-to-fix" /\ cur'[w] = q
    BY <2>1, <2>2 DEF Saved
  <2> QED
    BY <2>1, <2>2, <2>3 DEF SaveRow, RowsAreWritten
<1>2. ASSUME NEW v \in Worker, SavePlan(v), v # w PROVE pc'[w] = pc[w] /\ cur'[w] = cur[w]
  BY <1>2, SavedPlan DEF Saved
<1>3. ASSUME NEW v \in Worker,
             Generate(v) \/ FilterByHistory(v) \/ FilterByProvider(v) \/ NothingLeft(v)
             \/ ChooseMode(v) \/ BatchDone(v) \/ StoreFix(v) \/ Announce(v)
      PROVE  pc[w] \in {"store", "announce"} /\ cur'[w] = cur[w]
  BY <1>3
  DEF Generate, FilterByHistory, FilterByProvider, NothingLeft, ChooseMode, BatchDone,
      StoreFix, Announce
<1>4. ASSUME NEW v \in Worker,
             VerifySource(v) \/ CheckLimit(v) \/ CreatePR(v) \/ RecordPR(v) \/ SkipPlan(v)
             \/ StopBatch(v)
      PROVE  pc[w] \in {"store", "announce"} /\ cur'[w] = cur[w]
  BY <1>4 DEF VerifySource, CheckLimit, CreatePR, RecordPR, SkipPlan, StopBatch
<1>5. ASSUME NEW b \in Approver,
             Click(b) \/ HandlerReturns(b) \/ ApproverStep(b) \/ CrashApprover(b)
      PROVE  pc'[w] = pc[w] /\ cur'[w] = cur[w]
  BY <1>5
  DEF ApproverStep, Click, HandlerReturns, Take, VerifyPending, CreateApprovedPR,
      RecordApproval, GiveUp, CrashApprover, Stopped
<1>6. ASSUME NEW m \in Monitor, MonitorStep(m) PROVE pc'[w] = pc[w] /\ cur'[w] = cur[w]
  BY <1>6
  DEF MonitorStep, MonitorStart, PollPR, Observe, SettlePR, MonitorReverts, OpenRevert,
      SettleRevert, MonitorEnd, Settle
<1>7. CASE CrashLeader
  BY <1>7 DEF CrashLeader, Stopped
<1> QED
  BY <1>1, <1>2, <1>3, <1>4, <1>5, <1>6, <1>7
  DEF Next, WorkerStep, CleanupExpired, Merge, Close, EditSource, Tick
(* Only a worker that stores or announces a fix makes one wait.            *)
LEMMA AskingByWorker ==
  ASSUME IInv, Next, NEW p \in Plan, Asking(p)', ~Asking(p)
  PROVE  \E w \in Worker : (StoreFix(w) \/ Announce(w)) /\ cur[w] = p
<1> USE DEF IInv, TypeOK, Asking, fixVars
<1>1. ASSUME NEW w \in Worker, StoreFix(w) \/ Announce(w)
      PROVE  (StoreFix(w) \/ Announce(w)) /\ cur[w] = p
  <2>1. cur[w] = p
    BY <1>1 DEF StoreFix, Announce
  <2> QED
    BY <1>1, <2>1
<1> QED
  BY <1>1
  DEF Next, WorkerStep, ApproverStep, MonitorStep, Generate, FilterByHistory,
      FilterByProvider, NothingLeft, ChooseMode, SavePlan, BatchDone, VerifySource,
      CheckLimit, CreatePR, RecordPR, SkipPlan, StopBatch, Click, HandlerReturns, Take,
      VerifyPending, CreateApprovedPR, RecordApproval, CrashApprover, MonitorStart, PollPR,
      Observe, SettlePR, MonitorReverts, OpenRevert, SettleRevert, MonitorEnd,
      CleanupExpired, Merge, Close, EditSource, Tick, CrashLeader

(* Every row is written, so only the rate limit stops a batch, and what it *)
(* stops was to be submitted without an approval.                          *)
LEMMA StoppingFrom ==
  ASSUME RowsAreWritten, IInv, DupInv, Next, NEW w \in Worker, pc'[w] = "stop"
  PROVE  mode'[cur'[w]] = "auto-fix"
<1> USE ActorsAssumption DEF IInv, TypeOK, Submitter, Actor, Goto, actorVars
<1>0. pc[w] = "stop" => cur[w] \in Plan /\ mode[cur[w]] = "auto-fix" /\ Owns(w, cur[w])
  BY DEF DupInv, AskingKnown, ControlInv, OwnerControl, Owns
<1>1. ASSUME NEW v \in Worker, SavePlan(v) PROVE mode'[cur'[w]] = "auto-fix"
  <2>1. PICK q \in batch[v] : Saved(v, q)
    BY <1>1, SavedPlan
  <2>2. pc[v] = "save" /\ mode' = mode
    BY <1>1 DEF SavePlan, planVars
  <2>3. pc[w] = "stop" /\ cur'[w] = cur[w]
    BY <2>1, <2>2 DEF Saved
  <2> QED
    BY <1>0, <2>2, <2>3
<1>2. ASSUME NEW v \in Worker, Generate(v) \/ NothingLeft(v) \/ BatchDone(v) \/ Announce(v)
                               \/ StoreFix(v)
      PROVE  mode'[cur'[w]] = "auto-fix"
  BY <1>0, <1>2
  DEF Generate, NothingLeft, BatchDone, Announce, StoreFix, RowsAreWritten, planVars
<1>3. ASSUME NEW v \in Worker, ChooseMode(v) PROVE mode'[cur'[w]] = "auto-fix"
  <2>1. pc[w] = "stop" /\ cur' = cur
    BY <1>3 DEF ChooseMode
  <2>2. cur[w] \notin batch[v]
    BY <1>0, <2>1 DEF DraftInv, Drafts
  <2> QED
    BY <1>0, <1>3, <2>1, <2>2 DEF ChooseMode
<1>4. ASSUME NEW v \in Worker, FilterByHistory(v) \/ FilterByProvider(v) \/ StopBatch(v)
      PROVE  mode'[cur'[w]] = "auto-fix"
  <2>1. pc[w] = "stop" /\ cur'[w] = cur[w]
    BY <1>4 DEF FilterByHistory, FilterByProvider, StopBatch
  <2>2. cur[w] \notin Drafts(v)
    BY <1>0, <2>1 DEF DraftInv
  <2>3. mode'[cur[w]] = mode[cur[w]]
    BY <1>0, <1>4, <2>1, <2>2
    DEF FilterByHistory, FilterByProvider, StopBatch, Release, planVars, Drafts, ControlInv
  <2> QED
    BY <1>0, <2>1, <2>3
<1>5. ASSUME NEW v \in Worker, CheckLimit(v) PROVE mode'[cur'[w]] = "auto-fix"
  <2>1. mode' = mode /\ cur' = cur
    BY <1>5 DEF CheckLimit, planVars
  <2>2. pc[w] \in {"stop", "limit"}
    BY <1>5 DEF CheckLimit
  <2>3. pc[w] = "limit" => cur[w] \in Plan /\ mode[cur[w]] = "auto-fix"
    BY DEF ControlInv, WorkerOwnerInv, Owns, OwnerControl
  <2> QED
    BY <1>0, <2>1, <2>2, <2>3
<1>6. ASSUME NEW v \in Worker, VerifySource(v) \/ CreatePR(v) \/ RecordPR(v) \/ SkipPlan(v)
      PROVE  mode'[cur'[w]] = "auto-fix"
  BY <1>0, <1>6 DEF VerifySource, CreatePR, RecordPR, SkipPlan, planVars
<1>7. ASSUME NEW b \in Approver,
             Click(b) \/ HandlerReturns(b) \/ ApproverStep(b) \/ CrashApprover(b)
      PROVE  pc'[w] = pc[w] /\ cur'[w] = cur[w] /\ mode' = mode
  BY <1>7
  DEF ApproverStep, Click, HandlerReturns, Take, VerifyPending, CreateApprovedPR,
      RecordApproval, GiveUp, CrashApprover, Stopped, planVars
<1>8. ASSUME NEW m \in Monitor, MonitorStep(m)
      PROVE  pc'[w] = pc[w] /\ cur'[w] = cur[w] /\ mode' = mode
  BY <1>8
  DEF MonitorStep, MonitorStart, PollPR, Observe, SettlePR, MonitorReverts, OpenRevert,
      SettleRevert, MonitorEnd, Settle, planVars
<1>9. CASE CrashLeader
  BY <1>9 DEF CrashLeader, Stopped
<1> QED
  BY <1>0, <1>1, <1>2, <1>3, <1>4, <1>5, <1>6, <1>7, <1>8, <1>9
  DEF Next, WorkerStep, CleanupExpired, Merge, Close, EditSource, Tick, planVars

(* The row of a plan that waits is written before the fix and changes      *)
(* only after the approval was used.                                       *)
LEMMA AskingKnownStays ==
  ASSUME RowsAreWritten, IInv, DupInv, Next
  PROVE  AskingKnown'
<1> USE ActorsAssumption DEF IInv, TypeOK, Submitter, Actor
<1>1. ASSUME NEW p \in Plan, Asking(p)' \/ Approved(p)'
      PROVE  row'[p] = "pending_approval"
  <2>1. CASE Asking(p) \/ Approved(p)
    <3>1. row[p] = "pending_approval"
      BY <2>1 DEF DupInv, AskingKnown
    <3> QED
      BY <2>1, <3>1, WaitingRowKept, WaitingNotRecorded
  <2>2. CASE ~Asking(p) /\ ~Approved(p)
    <3>1. PICK w \in Worker : (StoreFix(w) \/ Announce(w)) /\ cur[w] = p
      BY <1>1, <2>2, ApprovedFrom, AskingByWorker
    <3>2. row[p] = "pending_approval" /\ row' = row
      BY <3>1 DEF StoreFix, Announce, DupInv, AskingKnown, rowVars
    <3> QED
      BY <3>2
  <2> QED
    BY <2>1, <2>2
<1>2. ASSUME NEW w \in Worker, pc'[w] \in {"store", "announce"}
      PROVE  row'[cur'[w]] = "pending_approval"
  <2>1. CASE pc[w] \in {"store", "announce"} /\ cur'[w] = cur[w]
    <3>1. cur[w] \in Plan /\ Owns(w, cur[w])
      BY <2>1 DEF ControlInv, Owns, OwnerControl
    <3>2. row[cur[w]] = "pending_approval"
      BY <2>1 DEF DupInv, AskingKnown
    <3>3. ASSUME NEW a \in Submitter, cur[a] = cur[w], pc[a] \in {"record", "skip", "stop"}
          PROVE  FALSE
      <4>1. Owns(a, cur[w])
        BY <3>3 DEF Owns, OwnerControl
      <4> QED
        BY <2>1, <3>1, <3>3, <4>1 DEF SoleOwner
    <3> QED
      BY <2>1, <3>1, <3>2, <3>3, WaitingRowKept
  <2> QED
    BY <1>2, <2>1, StoringFrom
<1>3. ASSUME NEW w \in Worker, pc'[w] = "stop"
      PROVE  mode'[cur'[w]] = "auto-fix"
  BY <1>3, StoppingFrom
<1> QED
  BY <1>1, <1>2, <1>3 DEF AskingKnown

(* The four parts together are inductive relative to IInv.                 *)
LEMMA DupInvStays ==
  ASSUME OneWorker, RowsAreWritten, IInv, DupInv, [Next]_vars
  PROVE  DupInv'
<1>1. CASE Next
  BY <1>1, AskingKnownStays, BatchDistinctStays, FilterSeesRivalsStays, LiveAloneStays
  DEF DupInv
<1>2. CASE UNCHANGED vars
  BY <1>2
  DEF DupInv, AskingKnown, BatchDistinct, FilterSeesRivals, LiveAlone, Live, Asking, Approved,
      InHand, Drafts, Rivals, vars, planVars, rowVars, fixVars, vcsVars, actorVars
<1> QED
  BY <1>1, <1>2

(* The plan a pull request is opened for was live, so no rival is open.    *)
LEMMA OpenedAlone ==
  ASSUME IInv, DupInv, [Next]_vars
  PROVE  [\A p \in Plan : pr[p] = "none" /\ pr'[p] = "open" => ~OpenPRExists(p)]_pr
<1> SUFFICES ASSUME Next, NEW p \in Plan, pr[p] = "none", pr'[p] = "open",
                    NEW q \in Plan, target[q] = target[p], pr[q] = "open"
             PROVE  FALSE
  BY DEF vars, vcsVars, OpenPRExists
<1>1. Live(p) /\ p # q
  BY OpenedLive
<1>2. Rivals(p, q)
  BY <1>1, UnusedNotLive DEF Rivals
<1> QED
  BY <1>1, <1>2 DEF DupInv, LiveAlone

(* One goroutine that runs handleRemediation, with rows that are always    *)
(* written, opens no second pull request for a target, however approvals,  *)
(* crashes, merges and the host's errors interleave                        *)
(* (filterActiveRemediationPlans).                                         *)
THEOREM NoDuplicates ==
  ASSUME OneWorker, RowsAreWritten
  PROVE  Spec => NoDuplicatePR
<1>1. Init => DupInv
  BY DupInvInit
<1>2. IInv /\ DupInv /\ [Next]_vars => DupInv'
  BY OneWorker, RowsAreWritten, DupInvStays
<1>3. IInv /\ DupInv /\ [Next]_vars
        => [\A p \in Plan : pr[p] = "none" /\ pr'[p] = "open" => ~OpenPRExists(p)]_pr
  BY OpenedAlone
<1> QED
  BY <1>1, <1>2, <1>3, Invariance, PTL DEF Spec, NoDuplicatePR

-----------------------------------------------------------------------------
(* The right to open a pull request is in one place: who may open it is    *)
(* past the asking, and a fix that waits for a click has no submitter.     *)
LEMMA RightInOnePlace ==
  ASSUME IInv, NEW p \in Plan
  PROVE  /\ MayOpen(p) => ~YetToAsk(p) /\ fix[p] # "pending"
         /\ YetToAsk(p) => fix[p] # "pending"
<1> USE ActorsAssumption DEF IInv, TypeOK, Submitter
<1>1. ASSUME target[p] = NoTarget \/ \E w \in Worker : p \in todo[w] \cup batch[w]
      PROVE  ~MayOpen(p) /\ fix[p] = "none"
  BY <1>1 DEF UnusedInv, DraftInv, Drafts, Untouched, MayOpen, Owns, OwnerControl
<1>2. ASSUME MayOpen(p) PROVE fix[p] \in {"none", "taken"}
  BY <1>2 DEF MayOpen, Owns, OwnerControl, WorkerOwnerInv, ApproverOwnerInv, ModeInv
<1>3. ASSUME NEW w \in Worker, cur[w] = p, pc[w] = "store"
      PROVE  ~MayOpen(p) /\ fix[p] = "none"
  BY <1>3 DEF MayOpen, Owns, OwnerControl, SoleOwner, WorkerOwnerInv
<1> QED
  BY <1>1, <1>2, <1>3 DEF YetToAsk

(* Nobody who was asked, or may open, or has lost the right, is yet to ask. *)
LEMMA YetToAskFrom ==
  ASSUME IInv, Next, NEW p \in Plan, YetToAsk(p)'
  PROVE  YetToAsk(p)
<1> USE ActorsAssumption, PlanAssumption
        DEF IInv, TypeOK, Submitter, Actor, Goto, planVars, fixVars, actorVars, YetToAsk
<1>1. ASSUME NEW w \in Worker, Generate(w) PROVE YetToAsk(p)
  BY <1>1 DEF Generate
<1>2. ASSUME NEW w \in Worker, FilterByHistory(w) \/ FilterByProvider(w) PROVE YetToAsk(p)
  BY <1>2 DEF FilterByHistory, FilterByProvider, Release, ControlInv
<1>3. ASSUME NEW w \in Worker, SavePlan(w) PROVE YetToAsk(p)
  <2>1. PICK q \in batch[w] : Saved(w, q) /\ batch' = [batch EXCEPT ![w] = @ \ {q}]
    BY <1>3, SavedPlan
  <2> QED
    BY <1>3, <2>1 DEF SavePlan, Saved
<1>4. ASSUME NEW w \in Worker, NothingLeft(w) \/ ChooseMode(w) \/ BatchDone(w) \/ StopBatch(w)
      PROVE  YetToAsk(p)
  BY <1>4 DEF NothingLeft, ChooseMode, BatchDone, StopBatch, Release
<1>5. ASSUME NEW w \in Worker, StoreFix(w) \/ Announce(w) PROVE YetToAsk(p)
  BY <1>5 DEF StoreFix, Announce
<1>6. ASSUME NEW w \in Worker, VerifySource(w) \/ CheckLimit(w) \/ CreatePR(w) \/ RecordPR(w)
                               \/ SkipPlan(w)
      PROVE  YetToAsk(p)
  BY <1>6 DEF VerifySource, CheckLimit, CreatePR, RecordPR, SkipPlan
<1>7. ASSUME NEW a \in Approver,
             Click(a) \/ HandlerReturns(a) \/ ApproverStep(a) \/ CrashApprover(a)
      PROVE  YetToAsk(p)
  BY <1>7
  DEF ApproverStep, Click, HandlerReturns, Take, VerifyPending, CreateApprovedPR,
      RecordApproval, GiveUp, CrashApprover, Stopped
<1>8. ASSUME NEW m \in Monitor, MonitorStep(m) PROVE YetToAsk(p)
  BY <1>8
  DEF MonitorStep, MonitorStart, PollPR, Observe, SettlePR, MonitorReverts, OpenRevert,
      SettleRevert, MonitorEnd, Settle
<1>9. CASE CrashLeader
  BY <1>9 DEF CrashLeader, Stopped, Release
<1> QED
  BY <1>1, <1>2, <1>3, <1>4, <1>5, <1>6, <1>7, <1>8, <1>9
  DEF Next, WorkerStep, CleanupExpired, Merge, Close, EditSource, Tick

(* A person is asked by an announcement.                                   *)
LEMMA AskedFrom ==
  ASSUME IInv, Next, NEW p \in Plan, fix'[p] = "pending", fix[p] # "pending"
  PROVE  \E w \in Worker : Announce(w) /\ cur[w] = p
<1> USE DEF IInv, TypeOK, fixVars
<1>1. ASSUME NEW w \in Worker, StoreFix(w) PROVE FALSE
  BY <1>1 DEF StoreFix
<1>2. ASSUME NEW w \in Worker, Announce(w) PROVE cur[w] = p
  BY <1>2 DEF Announce
<1> QED
  BY <1>1, <1>2
  DEF Next, WorkerStep, ApproverStep, MonitorStep, Generate, FilterByHistory,
      FilterByProvider, NothingLeft, ChooseMode, SavePlan, BatchDone, VerifySource,
      CheckLimit, CreatePR, RecordPR, SkipPlan, StopBatch, Click, HandlerReturns, Take,
      VerifyPending, CreateApprovedPR, RecordApproval, CrashApprover, MonitorStart, PollPR,
      Observe, SettlePR, MonitorReverts, OpenRevert, SettleRevert, MonitorEnd,
      CleanupExpired, Merge, Close, EditSource, Tick, CrashLeader

(* Who may open has taken a fix, or saved a plan in auto-fix mode.         *)
LEMMA MayOpenFrom ==
  ASSUME IInv, Next, NEW p \in Plan, MayOpen(p)', ~MayOpen(p)
  PROVE  \/ \E a \in Approver : Take(a) /\ cur[a] = p
         \/ \E w \in Worker : SavePlan(w) /\ p \in batch[w] /\ cur'[w] = p /\ mode[p] = "auto-fix"
<1> USE ActorsAssumption DEF IInv, TypeOK, Submitter, Actor, Goto, actorVars, MayOpen
<1> DEFINE Turned == \/ \E a \in Approver : Take(a) /\ cur[a] = p
                     \/ \E w \in Worker : /\ SavePlan(w) /\ p \in batch[w] /\ cur'[w] = p
                                          /\ mode[p] = "auto-fix"
<1>1. ASSUME NEW a \in Approver, Take(a) PROVE cur[a] = p
  BY <1>1 DEF Take, GiveUp
<1>2. ASSUME NEW w \in Worker, SavePlan(w)
      PROVE  p \in batch[w] /\ cur'[w] = p /\ mode[p] = "auto-fix"
  <2>1. PICK q \in batch[w] : Saved(w, q)
    BY <1>2, SavedPlan
  <2> QED
    BY <2>1 DEF Saved
<1>3. ASSUME NEW w \in Worker, Generate(w) \/ FilterByHistory(w) \/ FilterByProvider(w)
             \/ NothingLeft(w) \/ ChooseMode(w) \/ BatchDone(w) \/ StoreFix(w) \/ Announce(w)
      PROVE  FALSE
  BY <1>3 DEF Generate, FilterByHistory, FilterByProvider, NothingLeft, ChooseMode, BatchDone,
              StoreFix, Announce
<1>4. ASSUME NEW w \in Worker, VerifySource(w) \/ CheckLimit(w) \/ CreatePR(w) \/ RecordPR(w)
                               \/ SkipPlan(w) \/ StopBatch(w)
      PROVE  FALSE
  BY <1>4 DEF VerifySource, CheckLimit, CreatePR, RecordPR, SkipPlan, StopBatch
<1>5. ASSUME NEW a \in Approver, Click(a) \/ HandlerReturns(a) \/ VerifyPending(a)
                                 \/ CreateApprovedPR(a) \/ RecordApproval(a) \/ CrashApprover(a)
      PROVE  FALSE
  BY <1>5 DEF Click, HandlerReturns, VerifyPending, CreateApprovedPR, RecordApproval, GiveUp,
              CrashApprover, Stopped
<1>6. ASSUME NEW m \in Monitor, MonitorStep(m) PROVE FALSE
  BY <1>6
  DEF MonitorStep, MonitorStart, PollPR, Observe, SettlePR, MonitorReverts, OpenRevert,
      SettleRevert, MonitorEnd, Settle
<1>7. CASE CrashLeader
  BY <1>7 DEF CrashLeader, Stopped
<1> QED
  BY <1>1, <1>2, <1>3, <1>4, <1>5, <1>6, <1>7
  DEF Next, WorkerStep, ApproverStep, CleanupExpired, Merge, Close, EditSource, Tick

(* A step that gives nobody a right leaves each or takes it away.          *)
LEMMA RightsLost ==
  ASSUME IInv, Next, UNCHANGED pr,
         \A p \in Plan : fix'[p] = "pending" => fix[p] = "pending",
         \A p \in Plan : MayOpen(p)' => MayOpen(p)
  PROVE  MD!MandateNext
<1> DEFINE S == {p \in Plan : Right(p)' # Right(p)}
<1>1. ASSUME NEW p \in Plan PROVE Right(p)' \in {Right(p), "gone"}
  BY YetToAskFrom, RightInOnePlace DEF Right
<1>2. [p \in Plan |-> Right(p)]'
        = [p \in Plan |-> IF p \in S THEN "gone" ELSE [q \in Plan |-> Right(q)][p]]
  BY <1>1
<1>3. MD!Lose(S)
  BY <1>2 DEF MD!Lose
<1> QED
  BY <1>3 DEF MD!MandateNext

(* A step by which the right of one plan turns and no other one's does.    *)
LEMMA RightTurned ==
  ASSUME NEW p \in Plan, NEW old, NEW new, Right(p) = old, Right(p)' = new,
         \A q \in Plan \ {p} : Right(q)' = Right(q)
  PROVE  MD!Turns(p, old, new)
<1> DEFINE R == [q \in Plan |-> Right(q)]
<1>1. R' = [R EXCEPT ![p] = new]
  OBVIOUS
<1> QED
  BY <1>1 DEF MD!Turns

(* What decides where the right of a plan is, before a step and after it.  *)
LEMMA RightPlaced ==
  ASSUME NEW p
  PROVE  /\ MayOpen(p) => Right(p) = "held"
         /\ ~MayOpen(p) /\ fix[p] = "pending" => Right(p) = "asked"
         /\ ~MayOpen(p) /\ fix[p] # "pending" /\ YetToAsk(p) => Right(p) = "none"
         /\ ~MayOpen(p) /\ fix[p] # "pending" /\ ~YetToAsk(p) => Right(p) = "gone"
  BY DEF Right
LEMMA RightPlacedNext ==
  ASSUME NEW p
  PROVE  /\ MayOpen(p)' => Right(p)' = "held"
         /\ ~MayOpen(p)' /\ fix'[p] = "pending" => Right(p)' = "asked"
         /\ ~MayOpen(p)' /\ fix'[p] # "pending" /\ YetToAsk(p)' => Right(p)' = "none"
         /\ ~MayOpen(p)' /\ fix'[p] # "pending" /\ ~YetToAsk(p)' => Right(p)' = "gone"
  BY DEF Right

(* An announcement asks, a click that takes the fix grants, auto-fix mode  *)
(* waives, and the rights of other plans stay where they are.              *)
LEMMA AnnounceTurns ==
  ASSUME IInv, Next, NEW w \in Worker, Announce(w)
  PROVE  MD!MandateNext
<1> USE ActorsAssumption, PlanAssumption
        DEF IInv, TypeOK, Submitter, Actor, Goto, planVars, fixVars, vcsVars, actorVars
<1>1. PICK p \in Plan : p = cur[w]
  BY DEF Announce, ControlInv, OwnerControl
<1>2. UNCHANGED pr
  BY DEF Announce
<1>3. \A q \in Plan : (MayOpen(q)' <=> MayOpen(q))
  BY DEF Announce, MayOpen
<1>4. CASE fix[p] # "unannounced"
  <2>1. \A q \in Plan : fix'[q] = fix[q]
    BY <1>1, <1>4 DEF Announce
  <2> QED
    BY <1>2, <1>3, <2>1, RightsLost
<1>5. CASE fix[p] = "unannounced"
  <2>1. Right(p) = "none" /\ YetToAsk(p) /\ ~MayOpen(p)
    <3>1. YetToAsk(p)
      BY <1>5 DEF YetToAsk
    <3>2. ~MayOpen(p)
      BY <3>1, RightInOnePlace
    <3>3. fix[p] # "pending"
      BY <1>5
    <3> QED
      BY <3>1, <3>2, <3>3, RightPlaced, RightPlacedNext
  <2>2. Right(p)' = "asked"
    <3>1. ~MayOpen(p)'
      BY <1>3, <2>1
    <3>2. fix'[p] = "pending"
      BY <1>1, <1>5 DEF Announce
    <3> QED
      BY <3>1, <3>2, RightPlaced, RightPlacedNext
  <2>3. \A q \in Plan \ {p} : Right(q)' = Right(q)
    <3> SUFFICES ASSUME NEW q \in Plan \ {p} PROVE Right(q)' = Right(q)
      OBVIOUS
    <3>1. fix'[q] = fix[q] /\ (YetToAsk(q)' <=> YetToAsk(q))
      BY <1>1 DEF Announce, YetToAsk
    <3> QED
      BY <1>3, <3>1, RightPlaced, RightPlacedNext
  <2>4. Mode # "dry-run"
    BY <1>1 DEF Announce, WorkerOwnerInv, Owns, OwnerControl, ModeInv
  <2>5. MD!Ask(p)
    BY <1>1, <1>2, <2>1, <2>2, <2>3, <2>4, RightTurned DEF MD!Ask
  <2> QED
    BY <1>1, <2>5 DEF MD!MandateNext
<1> QED
  BY <1>4, <1>5

LEMMA TakeTurns ==
  ASSUME IInv, Next, NEW a \in Approver, Take(a)
  PROVE  MD!MandateNext
<1> USE ActorsAssumption, PlanAssumption
        DEF IInv, TypeOK, Submitter, Actor, Goto, planVars, fixVars, vcsVars, actorVars
<1>1. PICK p \in Plan : p = cur[a]
  BY DEF Take, ControlInv
<1>2. UNCHANGED pr
  BY DEF Take
<1>3. \A q \in Plan : fix'[q] = "pending" => fix[q] = "pending"
  BY DEF Take
<1>4. CASE pc'[a] # "verify"
  <2>1. \A q \in Plan : MayOpen(q)' => MayOpen(q)
    BY <1>4 DEF Take, GiveUp, MayOpen
  <2> QED
    BY <1>2, <1>3, <2>1, RightsLost
<1>5. CASE pc'[a] = "verify"
  <2>1. fix[p] = "pending" /\ cur' = cur /\ fix' = [fix EXCEPT ![p] = "taken"]
        /\ pc' = [pc EXCEPT ![a] = "verify"]
    BY <1>1, <1>5 DEF Take, GiveUp, Expired
  <2>2. Right(p) = "asked"
    BY <1>1, <2>1, RightInOnePlace, RightPlaced, RightPlacedNext
  <2>3. Right(p)' = "held"
    BY <1>1, <2>1, RightPlaced, RightPlacedNext DEF MayOpen
  <2>4. \A q \in Plan \ {p} : Right(q)' = Right(q)
    <3> SUFFICES ASSUME NEW q \in Plan \ {p} PROVE Right(q)' = Right(q)
      OBVIOUS
    <3>1. fix'[q] = fix[q] /\ (MayOpen(q)' <=> MayOpen(q))
      BY <2>1 DEF MayOpen, Take
    <3>2. (YetToAsk(q)' <=> YetToAsk(q))
      BY <2>1, <3>1 DEF Take, YetToAsk
    <3> QED
      BY <3>1, <3>2, RightPlaced, RightPlacedNext
  <2>5. MD!Grant(p)
    BY <1>1, <1>2, <2>2, <2>3, <2>4, RightTurned DEF MD!Grant
  <2> QED
    BY <1>1, <2>5 DEF MD!MandateNext
<1> QED
  BY <1>4, <1>5

LEMMA SaveTurns ==
  ASSUME IInv, Next, NEW w \in Worker, SavePlan(w)
  PROVE  MD!MandateNext
<1> USE ActorsAssumption, PlanAssumption
        DEF IInv, TypeOK, Submitter, Actor, Goto, planVars, fixVars, vcsVars, actorVars
<1>1. PICK p \in batch[w] : Saved(w, p) /\ batch' = [batch EXCEPT ![w] = @ \ {p}]
  BY SavedPlan
<1>2. p \in Plan /\ YetToAsk(p)
  BY DEF YetToAsk
<1>3. UNCHANGED <<pr, fix, target, todo>>
  BY DEF SavePlan
<1>4. CASE mode[p] # "auto-fix"
  <2>1. \A q \in Plan : MayOpen(q)' => MayOpen(q)
    BY <1>1, <1>4 DEF SavePlan, Saved, MayOpen
  <2> QED
    BY <1>3, <2>1, RightsLost
<1>5. CASE mode[p] = "auto-fix"
  <2>1. pc' = [pc EXCEPT ![w] = "verify"] /\ cur' = [cur EXCEPT ![w] = p] /\ pc[w] = "save"
    BY <1>1, <1>5 DEF Saved, SavePlan
  <2>2. Right(p) = "none"
    BY <1>2, RightInOnePlace, RightPlaced, RightPlacedNext
  <2>3. Right(p)' = "held"
    BY <2>1, RightPlaced, RightPlacedNext DEF MayOpen
  <2>4. \A q \in Plan \ {p} : Right(q)' = Right(q)
    <3> SUFFICES ASSUME NEW q \in Plan \ {p} PROVE Right(q)' = Right(q)
      OBVIOUS
    <3>1. (MayOpen(q)' <=> MayOpen(q))
      BY <2>1 DEF MayOpen
    <3>2. (YetToAsk(q)' <=> YetToAsk(q))
      BY <1>1, <1>3, <2>1 DEF YetToAsk
    <3> QED
      BY <1>3, <3>1, <3>2, RightPlaced, RightPlacedNext
  <2>5. Mode = "auto-fix"
    BY <1>2, <1>5 DEF ModeInv
  <2>6. MD!Waive(p)
    BY <1>2, <1>3, <2>2, <2>3, <2>4, <2>5, RightTurned DEF MD!Waive
  <2> QED
    BY <1>2, <2>6 DEF MD!MandateNext
<1> QED
  BY <1>4, <1>5

(* Opening uses the right up: the submitter is past the call, and was the  *)
(* only one.                                                               *)
Creates(a) ==
    \/ a \in Worker /\ CreatePR(a)
    \/ a \in Approver /\ CreateApprovedPR(a)
LEMMA CreateTurns ==
  ASSUME IInv, Next, NEW a \in Submitter, Creates(a)
  PROVE  MD!MandateNext
<1> USE ActorsAssumption, PlanAssumption
        DEF IInv, TypeOK, Submitter, Actor, Goto, planVars, fixVars, vcsVars, actorVars
<1>0. /\ pc[a] = "create" /\ pc'[a] \in {"record", "skip"}
      /\ \A b \in Actor \ {a} : pc'[b] = pc[b]
      /\ UNCHANGED <<fix, target, todo, batch, cur>>
  BY DEF Creates, CreatePR, CreateApprovedPR
<1>1. PICK p \in Plan : p = cur[a] /\ Owns(a, p)
  BY <1>0 DEF ControlInv, OwnerControl, Owns
<1>2. \A q \in Plan : MayOpen(q)' => MayOpen(q)
  BY <1>0 DEF MayOpen
<1>3. CASE UNCHANGED pr
  BY <1>0, <1>2, <1>3, RightsLost
<1>4. CASE ~UNCHANGED pr
  <2>1. pr' = [pr EXCEPT ![p] = "open"]
    BY <1>1, <1>4 DEF Creates, CreatePR, CreateApprovedPR
  <2>2. Right(p) = "held" /\ MayOpen(p)
    BY <1>1, <1>0, RightPlaced, RightPlacedNext DEF MayOpen
  <2>3. ~MayOpen(p)'
    BY <1>0, <1>1 DEF MayOpen, SoleOwner, Owns, OwnerControl
  <2>4. Right(p)' = "gone"
    BY <1>0, <1>1, <2>2, <2>3, RightInOnePlace, YetToAskFrom, RightPlaced, RightPlacedNext
  <2>5. \A q \in Plan \ {p} : Right(q)' = Right(q)
    <3> SUFFICES ASSUME NEW q \in Plan \ {p} PROVE Right(q)' = Right(q)
      OBVIOUS
    <3>1. (MayOpen(q)' <=> MayOpen(q)) /\ (YetToAsk(q)' <=> YetToAsk(q))
      BY <1>0, <1>1 DEF MayOpen, YetToAsk
    <3> QED
      BY <1>0, <3>1, RightPlaced, RightPlacedNext
  <2>6. MD!Open(p)
    BY <1>1, <2>1, <2>2, <2>4, <2>5, RightTurned DEF MD!Open
  <2> QED
    BY <1>1, <2>6 DEF MD!MandateNext
<1> QED
  BY <1>3, <1>4

(* People decide about pull requests, not about rights.                    *)
LEMMA DecideTurns ==
  ASSUME NEW p \in Plan, Merge(p) \/ Close(p)
  PROVE  MD!MandateNext
<1>1. \A q \in Plan : Right(q)' = Right(q)
  BY DEF Merge, Close, Right, MayOpen, YetToAsk, planVars, fixVars, actorVars
<1>2. pr[p] = "open" /\ \E fate \in {"merged", "closed"} : pr' = [pr EXCEPT ![p] = fate]
  BY DEF Merge, Close
<1>3. \E fate \in {"merged", "closed"} : MD!Decide(p, fate)
  BY <1>1, <1>2 DEF MD!Decide
<1> QED
  BY <1>3 DEF MD!MandateNext

(* Every other step takes rights away at most.                             *)
LEMMA MandateStep ==
  ASSUME IInv, Next
  PROVE  [MD!MandateNext]_<<[p \in Plan |-> Right(p)], pr>>
<1>1. CASE \E w \in Worker : Announce(w)
  BY <1>1, AnnounceTurns
<1>2. CASE \E a \in Approver : Take(a)
  BY <1>2, TakeTurns
<1>3. CASE \E w \in Worker : SavePlan(w)
  BY <1>3, SaveTurns
<1>4. CASE (\E w \in Worker : CreatePR(w)) \/ \E a \in Approver : CreateApprovedPR(a)
  <2>1. \E a \in Submitter : Creates(a)
    BY <1>4 DEF Creates, Submitter
  <2> QED
    BY <2>1, CreateTurns
<1>5. CASE \E p \in Plan : Merge(p) \/ Close(p)
  BY <1>5, DecideTurns
<1>6. CASE /\ \A w \in Worker : ~Announce(w) /\ ~SavePlan(w) /\ ~CreatePR(w)
           /\ \A a \in Approver : ~Take(a) /\ ~CreateApprovedPR(a)
           /\ \A p \in Plan : ~Merge(p) /\ ~Close(p)
  <2>1. UNCHANGED pr
    BY <1>6
    DEF Next, WorkerStep, ApproverStep, MonitorStep, Generate, FilterByHistory,
        FilterByProvider, NothingLeft, ChooseMode, BatchDone, StoreFix, VerifySource,
        CheckLimit, RecordPR, SkipPlan, StopBatch, Click, HandlerReturns,
        VerifyPending, RecordApproval, CrashApprover, MonitorStart, PollPR,
        Observe, SettlePR, MonitorReverts, OpenRevert, SettleRevert, MonitorEnd,
        CleanupExpired, EditSource, Tick, CrashLeader, vcsVars
  <2>2. \A p \in Plan : fix'[p] = "pending" => fix[p] = "pending"
    BY <1>6, AskedFrom
  <2>3. \A p \in Plan : MayOpen(p)' => MayOpen(p)
    BY <1>6, MayOpenFrom
  <2> QED
    BY <2>1, <2>2, <2>3, RightsLost
<1> QED
  BY <1>1, <1>2, <1>3, <1>4, <1>5, <1>6

(* The lifecycle implements Mandate: whatever fails and however clicks,    *)
(* expiries and crashes interleave, each pull request uses up one right,   *)
(* which was given once (handleRemediation, SubmitPendingFix).             *)
THEOREM RightsUsedOnce == Spec => ImplementsMandate
<1>1. Init => MD!MandateInit
  <2> SUFFICES ASSUME Init PROVE MD!MandateInit
    OBVIOUS
  <2>1. \A p \in Plan : Right(p) = "none"
    BY DEF Init, Right, MayOpen, YetToAsk, Actor
  <2> QED
    BY <2>1 DEF Init, MD!MandateInit
<1>2. IInv /\ [Next]_vars => [MD!MandateNext]_<<[p \in Plan |-> Right(p)], pr>>
  <2>1. ASSUME UNCHANGED vars PROVE UNCHANGED <<[p \in Plan |-> Right(p)], pr>>
    BY <2>1 DEF vars, planVars, fixVars, vcsVars, actorVars, Right, MayOpen, YetToAsk
  <2> QED
    BY <2>1, MandateStep
<1> QED
  BY <1>1, <1>2, Invariance, PTL DEF Spec, ImplementsMandate, MD!MandateSpec
=============================================================================
