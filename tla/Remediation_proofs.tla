----------------------- MODULE Remediation_proofs -----------------------
(***************************************************************************)
(* The safety of Remediation for any number of plans, workers, approvals   *)
(* and monitors, any faults and any timing: IInv is inductive, and the     *)
(* properties of the runs follow from it.  There is one step for each      *)
(* action, and where the prover wants it a lemma for the action with one   *)
(* step for each conjunct of the invariant.                                *)
(***************************************************************************)
EXTENDS RemediationInv, TLAPS

LEMMA IInvInit == Init => IInv
  BY ActorsAssumption, PlanAssumption, ConfigAssumption, TimeAssumption
  DEF Init, IInv, TypeOK, ControlInv, DraftInv, UnusedInv, ModeInv, SoleOwner, WorkerOwnerInv,
      ApproverOwnerInv, PendingInv, MonitorInv, RecordsSound, Submitter, Actor, Owns,
      OwnerControl, Drafts, Untouched, Control, WorkerControl, ApproverControl,
      MonitorControl, Modes, RowStatus, DraftStatus, MergedStatus, FixState, PRState

(* The CASE of SavePlan is first brought into the form of a disjunction.   *)
LEMMA SavePlanKeeps ==
  ASSUME IInv, NEW w \in Worker, SavePlan(w)
  PROVE  IInv'
<1> USE ActorsAssumption, PlanAssumption, ConfigAssumption, TimeAssumption
        DEF TypeOK, Submitter, Actor, Owns, OwnerControl, Drafts, Untouched, Submitted,
            Control, WorkerControl, ApproverControl, MonitorControl, Modes, RowStatus,
            DraftStatus, MergedStatus, FixState, PRState, planVars, rowVars, fixVars,
            vcsVars, actorVars
<1>0. /\ TypeOK /\ ControlInv /\ DraftInv /\ UnusedInv /\ ModeInv /\ SoleOwner
      /\ WorkerOwnerInv /\ ApproverOwnerInv /\ PendingInv /\ MonitorInv /\ RecordsSound
  BY DEF IInv
<1>1. PICK p \in batch[w] :
         /\ batch' = [batch EXCEPT ![w] = @ \ {p}]
         /\ SaveRow(p, IF mode[p] = "click-to-fix" THEN "pending_approval" ELSE "generated")
         /\ CASE mode[p] = "click-to-fix" -> Goto(w, "store") /\ cur' = [cur EXCEPT ![w] = p]
              [] mode[p] = "auto-fix"     -> Goto(w, "verify") /\ cur' = [cur EXCEPT ![w] = p]
              [] mode[p] = "dry-run"      -> UNCHANGED <<pc, cur>>
  BY DEF SavePlan
<1>2. p \in Plan /\ mode[p] \in Modes /\ Untouched(p) /\ pc[w] = "save"
  BY <1>0, <1>1 DEF SavePlan, DraftInv
<1> DEFINE st == IF mode[p] = "click-to-fix" THEN "pending_approval" ELSE "generated"
<1>3. /\ row' = row \/ row' = [row EXCEPT ![p] = st]
      /\ tracked' \in SUBSET Plan /\ age' = [age EXCEPT ![p] = 0]
  BY <1>0, <1>1, <1>2 DEF SaveRow
<1>4. \/ /\ mode[p] = "click-to-fix"
         /\ pc' = [pc EXCEPT ![w] = "store"] /\ cur' = [cur EXCEPT ![w] = p]
      \/ /\ mode[p] = "auto-fix"
         /\ pc' = [pc EXCEPT ![w] = "verify"] /\ cur' = [cur EXCEPT ![w] = p]
      \/ mode[p] = "dry-run" /\ UNCHANGED <<pc, cur>>
  BY <1>1, <1>2 DEF Goto
<1>5. /\ st \in {"pending_approval", "generated"}
      /\ batch' = [batch EXCEPT ![w] = @ \ {p}]
      /\ UNCHANGED <<planVars, fixVars, vcsVars, todo, ctxLive, verdict>>
  BY <1>1 DEF SavePlan
<1> HIDE DEF st
<1>6. TypeOK'
  BY <1>0, <1>2, <1>3, <1>4, <1>5, SMTT(30) DEF TypeOK
<1>7. ControlInv'
  BY <1>0, <1>2, <1>3, <1>4, <1>5, SMTT(30) DEF ControlInv
<1>8. DraftInv'
  BY <1>0, <1>2, <1>3, <1>4, <1>5, SMTT(30) DEF ControlInv, DraftInv, UnusedInv
<1>9. UnusedInv'
  BY <1>0, <1>2, <1>3, <1>4, <1>5, SMTT(30) DEF ControlInv, DraftInv, UnusedInv
<1>10. ModeInv'
  BY <1>0, <1>2, <1>3, <1>4, <1>5, SMTT(30)
  DEF ModeInv, ControlInv, WorkerOwnerInv, ApproverOwnerInv, DraftInv
<1>11. SoleOwner'
  BY <1>0, <1>2, <1>3, <1>4, <1>5, SMTT(30)
  DEF SoleOwner, ControlInv, DraftInv, PendingInv
<1>12. WorkerOwnerInv'
  BY <1>0, <1>2, <1>3, <1>4, <1>5, SMTT(30)
  DEF WorkerOwnerInv, SoleOwner, DraftInv, ControlInv
<1>13. ApproverOwnerInv'
  BY <1>0, <1>2, <1>3, <1>4, <1>5, SMTT(30)
  DEF ApproverOwnerInv, SoleOwner, DraftInv, ControlInv, PendingInv
<1>14. PendingInv'
  BY <1>0, <1>2, <1>3, <1>4, <1>5, SMTT(30)
  DEF PendingInv, ModeInv, ControlInv, DraftInv, WorkerOwnerInv
<1>15. MonitorInv'
  BY <1>0, <1>2, <1>3, <1>4, <1>5, SMTT(30)
  DEF MonitorInv, DraftInv, WorkerOwnerInv, ApproverOwnerInv, ControlInv
<1>16. RecordsSound'
  BY <1>0, <1>2, <1>3, <1>4, <1>5, SMTT(30)
  DEF RecordsSound, DraftInv, WorkerOwnerInv, ApproverOwnerInv, ControlInv, MonitorInv
<1> QED
  BY <1>6, <1>7, <1>8, <1>9, <1>10, <1>11, <1>12, <1>13, <1>14, <1>15, <1>16 DEF IInv

(* Actions whose conjuncts are proved one by one.                          *)
LEMMA FilterByHistoryKeeps ==
  ASSUME IInv, NEW w \in Worker, FilterByHistory(w)
  PROVE  IInv'
<1> USE ActorsAssumption, PlanAssumption, ConfigAssumption, TimeAssumption
        DEF TypeOK, Submitter, Actor, Owns, OwnerControl, Drafts, Untouched, Submitted,
            Control, WorkerControl, ApproverControl, MonitorControl, Modes, RowStatus,
            DraftStatus, MergedStatus, FixState, PRState, planVars, rowVars, fixVars,
            vcsVars, actorVars
<1>0. /\ TypeOK /\ ControlInv /\ DraftInv /\ UnusedInv /\ ModeInv /\ SoleOwner
      /\ WorkerOwnerInv /\ ApproverOwnerInv /\ PendingInv /\ MonitorInv /\ RecordsSound
  BY DEF IInv
<1>1. TypeOK'
  BY <1>0, SMTT(30) DEF FilterByHistory, Goto, Release
<1>2. ControlInv'
  BY <1>0, SMTT(30) DEF FilterByHistory, Goto, Release, ControlInv
<1>3. DraftInv'
  BY <1>0, SMTT(30) DEF FilterByHistory, Goto, Release, ControlInv, DraftInv, UnusedInv
<1>4. UnusedInv'
  BY <1>0, SMTT(30) DEF FilterByHistory, Goto, Release, ControlInv, DraftInv, UnusedInv
<1>5. ModeInv'
  BY <1>0, SMTT(30)
  DEF FilterByHistory, Goto, Release, ModeInv, ControlInv, WorkerOwnerInv,
      ApproverOwnerInv, DraftInv
<1>6. SoleOwner'
  BY <1>0, SMTT(30)
  DEF FilterByHistory, Goto, Release, SoleOwner, ControlInv, DraftInv, PendingInv
<1>7. WorkerOwnerInv'
  BY <1>0, SMTT(30)
  DEF FilterByHistory, Goto, Release, WorkerOwnerInv, SoleOwner, DraftInv, ControlInv
<1>8. ApproverOwnerInv'
  BY <1>0, SMTT(30)
  DEF FilterByHistory, Goto, Release, ApproverOwnerInv, SoleOwner, DraftInv, ControlInv,
      PendingInv
<1>9. PendingInv'
  BY <1>0, SMTT(30)
  DEF FilterByHistory, Goto, Release, PendingInv, ModeInv, ControlInv, DraftInv,
      WorkerOwnerInv
<1>10. MonitorInv'
  BY <1>0, SMTT(30)
  DEF FilterByHistory, Goto, Release, MonitorInv, DraftInv, WorkerOwnerInv,
      ApproverOwnerInv, ControlInv
<1>11. RecordsSound'
  BY <1>0, SMTT(30)
  DEF FilterByHistory, Goto, Release, RecordsSound, DraftInv, WorkerOwnerInv,
      ApproverOwnerInv, ControlInv, MonitorInv
<1> QED
  BY <1>1, <1>2, <1>3, <1>4, <1>5, <1>6, <1>7, <1>8, <1>9, <1>10, <1>11 DEF IInv

LEMMA StoreFixKeeps ==
  ASSUME IInv, NEW w \in Worker, StoreFix(w)
  PROVE  IInv'
<1> USE ActorsAssumption, PlanAssumption, ConfigAssumption, TimeAssumption
        DEF TypeOK, Submitter, Actor, Owns, OwnerControl, Drafts, Untouched, Submitted,
            Control, WorkerControl, ApproverControl, MonitorControl, Modes, RowStatus,
            DraftStatus, MergedStatus, FixState, PRState, planVars, rowVars, fixVars,
            vcsVars, actorVars
<1>0. /\ TypeOK /\ ControlInv /\ DraftInv /\ UnusedInv /\ ModeInv /\ SoleOwner
      /\ WorkerOwnerInv /\ ApproverOwnerInv /\ PendingInv /\ MonitorInv /\ RecordsSound
  BY DEF IInv
<1>1. TypeOK'
  BY <1>0, SMTT(30) DEF StoreFix, Goto, ControlInv
<1>2. ControlInv'
  BY <1>0, SMTT(30) DEF StoreFix, Goto, ControlInv
<1>3. DraftInv'
  BY <1>0, SMTT(30) DEF StoreFix, Goto, ControlInv, DraftInv, UnusedInv
<1>4. UnusedInv'
  BY <1>0, SMTT(30) DEF StoreFix, Goto, ControlInv, DraftInv, UnusedInv
<1>5. ModeInv'
  BY <1>0, SMTT(30)
  DEF StoreFix, Goto, ModeInv, ControlInv, WorkerOwnerInv, ApproverOwnerInv, DraftInv
<1>6. SoleOwner'
  BY <1>0, SMTT(30) DEF StoreFix, Goto, SoleOwner, ControlInv, DraftInv, PendingInv
<1>7. WorkerOwnerInv'
  BY <1>0, SMTT(30) DEF StoreFix, Goto, WorkerOwnerInv, SoleOwner, DraftInv, ControlInv
<1>8. ApproverOwnerInv'
  BY <1>0, SMTT(30)
  DEF StoreFix, Goto, ApproverOwnerInv, SoleOwner, DraftInv, ControlInv, PendingInv
<1>9. PendingInv'
  BY <1>0, SMTT(30)
  DEF StoreFix, Goto, PendingInv, ModeInv, ControlInv, DraftInv, WorkerOwnerInv
<1>10. MonitorInv'
  BY <1>0, SMTT(30)
  DEF StoreFix, Goto, MonitorInv, DraftInv, WorkerOwnerInv, ApproverOwnerInv, ControlInv
<1>11. RecordsSound'
  BY <1>0, SMTT(30)
  DEF StoreFix, Goto, RecordsSound, DraftInv, WorkerOwnerInv, ApproverOwnerInv,
      ControlInv, MonitorInv
<1> QED
  BY <1>1, <1>2, <1>3, <1>4, <1>5, <1>6, <1>7, <1>8, <1>9, <1>10, <1>11 DEF IInv

LEMMA VerifySourceKeeps ==
  ASSUME IInv, NEW w \in Worker, VerifySource(w)
  PROVE  IInv'
<1> USE ActorsAssumption, PlanAssumption, ConfigAssumption, TimeAssumption
        DEF TypeOK, Submitter, Actor, Owns, OwnerControl, Drafts, Untouched, Submitted,
            Control, WorkerControl, ApproverControl, MonitorControl, Modes, RowStatus,
            DraftStatus, MergedStatus, FixState, PRState, planVars, rowVars, fixVars,
            vcsVars, actorVars
<1>0. /\ TypeOK /\ ControlInv /\ DraftInv /\ UnusedInv /\ ModeInv /\ SoleOwner
      /\ WorkerOwnerInv /\ ApproverOwnerInv /\ PendingInv /\ MonitorInv /\ RecordsSound
  BY DEF IInv
<1>1. TypeOK'
  BY <1>0, SMTT(30) DEF VerifySource, Goto
<1>2. ControlInv'
  BY <1>0, SMTT(30) DEF VerifySource, Goto, ControlInv
<1>3. DraftInv'
  BY <1>0, SMTT(30) DEF VerifySource, Goto, ControlInv, DraftInv, UnusedInv
<1>4. UnusedInv'
  BY <1>0, SMTT(30) DEF VerifySource, Goto, ControlInv, DraftInv, UnusedInv
<1>5. ModeInv'
  BY <1>0, SMTT(30)
  DEF VerifySource, Goto, ModeInv, ControlInv, WorkerOwnerInv, ApproverOwnerInv,
      DraftInv
<1>6. SoleOwner'
  BY <1>0, SMTT(30) DEF VerifySource, Goto, SoleOwner, ControlInv, DraftInv, PendingInv
<1>7. WorkerOwnerInv'
  BY <1>0, SMTT(30)
  DEF VerifySource, Goto, WorkerOwnerInv, SoleOwner, DraftInv, ControlInv
<1>8. ApproverOwnerInv'
  BY <1>0, SMTT(30)
  DEF VerifySource, Goto, ApproverOwnerInv, SoleOwner, DraftInv, ControlInv, PendingInv
<1>9. PendingInv'
  BY <1>0, SMTT(30)
  DEF VerifySource, Goto, PendingInv, ModeInv, ControlInv, DraftInv, WorkerOwnerInv
<1>10. MonitorInv'
  BY <1>0, SMTT(30)
  DEF VerifySource, Goto, MonitorInv, DraftInv, WorkerOwnerInv, ApproverOwnerInv,
      ControlInv
<1>11. RecordsSound'
  BY <1>0, SMTT(30)
  DEF VerifySource, Goto, RecordsSound, DraftInv, WorkerOwnerInv, ApproverOwnerInv,
      ControlInv, MonitorInv
<1> QED
  BY <1>1, <1>2, <1>3, <1>4, <1>5, <1>6, <1>7, <1>8, <1>9, <1>10, <1>11 DEF IInv

LEMMA CreatePRKeeps ==
  ASSUME IInv, NEW w \in Worker, CreatePR(w)
  PROVE  IInv'
<1> USE ActorsAssumption, PlanAssumption, ConfigAssumption, TimeAssumption
        DEF TypeOK, Submitter, Actor, Owns, OwnerControl, Drafts, Untouched, Submitted,
            Control, WorkerControl, ApproverControl, MonitorControl, Modes, RowStatus,
            DraftStatus, MergedStatus, FixState, PRState, planVars, rowVars, fixVars,
            vcsVars, actorVars
<1>0. /\ TypeOK /\ ControlInv /\ DraftInv /\ UnusedInv /\ ModeInv /\ SoleOwner
      /\ WorkerOwnerInv /\ ApproverOwnerInv /\ PendingInv /\ MonitorInv /\ RecordsSound
  BY DEF IInv
<1>1. TypeOK'
  BY <1>0, SMTT(30) DEF CreatePR, Goto
<1>2. ControlInv'
  BY <1>0, SMTT(30) DEF CreatePR, Goto, ControlInv
<1>3. DraftInv'
  BY <1>0, SMTT(30) DEF CreatePR, Goto, ControlInv, DraftInv, UnusedInv
<1>4. UnusedInv'
  BY <1>0, SMTT(30) DEF CreatePR, Goto, ControlInv, DraftInv, UnusedInv
<1>5. ModeInv'
  BY <1>0, SMTT(30)
  DEF CreatePR, Goto, ModeInv, ControlInv, WorkerOwnerInv, ApproverOwnerInv, DraftInv
<1>6. SoleOwner'
  BY <1>0, SMTT(30) DEF CreatePR, Goto, SoleOwner, ControlInv, DraftInv, PendingInv
<1>7. WorkerOwnerInv'
  BY <1>0, SMTT(30) DEF CreatePR, Goto, WorkerOwnerInv, SoleOwner, DraftInv, ControlInv
<1>8. ApproverOwnerInv'
  BY <1>0, SMTT(30)
  DEF CreatePR, Goto, ApproverOwnerInv, SoleOwner, DraftInv, ControlInv, PendingInv
<1>9. PendingInv'
  BY <1>0, SMTT(30)
  DEF CreatePR, Goto, PendingInv, ModeInv, ControlInv, DraftInv, WorkerOwnerInv
<1>10. MonitorInv'
  BY <1>0, SMTT(30)
  DEF CreatePR, Goto, MonitorInv, DraftInv, WorkerOwnerInv, ApproverOwnerInv, ControlInv
<1>11. RecordsSound'
  BY <1>0, SMTT(30)
  DEF CreatePR, Goto, RecordsSound, DraftInv, WorkerOwnerInv, ApproverOwnerInv,
      ControlInv, MonitorInv
<1> QED
  BY <1>1, <1>2, <1>3, <1>4, <1>5, <1>6, <1>7, <1>8, <1>9, <1>10, <1>11 DEF IInv

LEMMA RecordPRKeeps ==
  ASSUME IInv, NEW w \in Worker, RecordPR(w)
  PROVE  IInv'
<1> USE ActorsAssumption, PlanAssumption, ConfigAssumption, TimeAssumption
        DEF TypeOK, Submitter, Actor, Owns, OwnerControl, Drafts, Untouched, Submitted,
            Control, WorkerControl, ApproverControl, MonitorControl, Modes, RowStatus,
            DraftStatus, MergedStatus, FixState, PRState, planVars, rowVars, fixVars,
            vcsVars, actorVars
<1>0. /\ TypeOK /\ ControlInv /\ DraftInv /\ UnusedInv /\ ModeInv /\ SoleOwner
      /\ WorkerOwnerInv /\ ApproverOwnerInv /\ PendingInv /\ MonitorInv /\ RecordsSound
  BY DEF IInv
<1>1. TypeOK'
  BY <1>0, SMTT(30) DEF RecordPR, Goto, Mark, MarkOrLose
<1>2. ControlInv'
  BY <1>0, SMTT(30) DEF RecordPR, Goto, Mark, MarkOrLose, ControlInv
<1>3. DraftInv'
  BY <1>0, SMTT(30)
  DEF RecordPR, Goto, Mark, MarkOrLose, ControlInv, DraftInv, UnusedInv
<1>4. UnusedInv'
  BY <1>0, SMTT(30)
  DEF RecordPR, Goto, Mark, MarkOrLose, ControlInv, DraftInv, UnusedInv
<1>5. ModeInv'
  BY <1>0, SMTT(30)
  DEF RecordPR, Goto, Mark, MarkOrLose, ModeInv, ControlInv, WorkerOwnerInv,
      ApproverOwnerInv, DraftInv
<1>6. SoleOwner'
  BY <1>0, SMTT(30)
  DEF RecordPR, Goto, Mark, MarkOrLose, SoleOwner, ControlInv, DraftInv, PendingInv
<1>7. WorkerOwnerInv'
  BY <1>0, SMTT(30)
  DEF RecordPR, Goto, Mark, MarkOrLose, WorkerOwnerInv, SoleOwner, DraftInv, ControlInv
<1>8. ApproverOwnerInv'
  BY <1>0, SMTT(30)
  DEF RecordPR, Goto, Mark, MarkOrLose, ApproverOwnerInv, SoleOwner, DraftInv,
      ControlInv, PendingInv
<1>9. PendingInv'
  BY <1>0, SMTT(30)
  DEF RecordPR, Goto, Mark, MarkOrLose, PendingInv, ModeInv, ControlInv, DraftInv,
      WorkerOwnerInv
<1>10. MonitorInv'
  BY <1>0, SMTT(30)
  DEF RecordPR, Goto, Mark, MarkOrLose, MonitorInv, DraftInv, WorkerOwnerInv,
      ApproverOwnerInv, ControlInv
<1>11. RecordsSound'
  BY <1>0, SMTT(30)
  DEF RecordPR, Goto, Mark, MarkOrLose, RecordsSound, DraftInv, WorkerOwnerInv,
      ApproverOwnerInv, ControlInv, MonitorInv
<1> QED
  BY <1>1, <1>2, <1>3, <1>4, <1>5, <1>6, <1>7, <1>8, <1>9, <1>10, <1>11 DEF IInv

LEMMA TakeKeeps ==
  ASSUME IInv, NEW a \in Approver, Take(a)
  PROVE  IInv'
<1> USE ActorsAssumption, PlanAssumption, ConfigAssumption, TimeAssumption
        DEF TypeOK, Submitter, Actor, Owns, OwnerControl, Drafts, Untouched, Submitted,
            Control, WorkerControl, ApproverControl, MonitorControl, Modes, RowStatus,
            DraftStatus, MergedStatus, FixState, PRState, planVars, rowVars, fixVars,
            vcsVars, actorVars
<1>0. /\ TypeOK /\ ControlInv /\ DraftInv /\ UnusedInv /\ ModeInv /\ SoleOwner
      /\ WorkerOwnerInv /\ ApproverOwnerInv /\ PendingInv /\ MonitorInv /\ RecordsSound
  BY DEF IInv
<1>1. TypeOK'
  BY <1>0, SMTT(30) DEF Take, Goto, GiveUp
<1>2. ControlInv'
  BY <1>0, SMTT(30) DEF Take, Goto, GiveUp, ControlInv
<1>3. DraftInv'
  BY <1>0, SMTT(30) DEF Take, Goto, GiveUp, ControlInv, DraftInv, UnusedInv
<1>4. UnusedInv'
  BY <1>0, SMTT(30) DEF Take, Goto, GiveUp, ControlInv, DraftInv, UnusedInv
<1>5. ModeInv'
  BY <1>0, SMTT(30)
  DEF Take, Goto, GiveUp, ModeInv, ControlInv, WorkerOwnerInv, ApproverOwnerInv,
      DraftInv
<1>6. SoleOwner'
  BY <1>0, SMTT(30) DEF Take, Goto, GiveUp, SoleOwner, ControlInv, DraftInv, PendingInv
<1>7. WorkerOwnerInv'
  BY <1>0, SMTT(30)
  DEF Take, Goto, GiveUp, WorkerOwnerInv, SoleOwner, DraftInv, ControlInv
<1>8. ApproverOwnerInv'
  BY <1>0, SMTT(30)
  DEF Take, Goto, GiveUp, ApproverOwnerInv, SoleOwner, DraftInv, ControlInv, PendingInv
<1>9. PendingInv'
  BY <1>0, SMTT(30)
  DEF Take, Goto, GiveUp, PendingInv, ModeInv, ControlInv, DraftInv, WorkerOwnerInv
<1>10. MonitorInv'
  BY <1>0, SMTT(30)
  DEF Take, Goto, GiveUp, MonitorInv, DraftInv, WorkerOwnerInv, ApproverOwnerInv,
      ControlInv
<1>11. RecordsSound'
  BY <1>0, SMTT(30)
  DEF Take, Goto, GiveUp, RecordsSound, DraftInv, WorkerOwnerInv, ApproverOwnerInv,
      ControlInv, MonitorInv
<1> QED
  BY <1>1, <1>2, <1>3, <1>4, <1>5, <1>6, <1>7, <1>8, <1>9, <1>10, <1>11 DEF IInv

LEMMA CreateApprovedPRKeeps ==
  ASSUME IInv, NEW a \in Approver, CreateApprovedPR(a)
  PROVE  IInv'
<1> USE ActorsAssumption, PlanAssumption, ConfigAssumption, TimeAssumption
        DEF TypeOK, Submitter, Actor, Owns, OwnerControl, Drafts, Untouched, Submitted,
            Control, WorkerControl, ApproverControl, MonitorControl, Modes, RowStatus,
            DraftStatus, MergedStatus, FixState, PRState, planVars, rowVars, fixVars,
            vcsVars, actorVars
<1>0. /\ TypeOK /\ ControlInv /\ DraftInv /\ UnusedInv /\ ModeInv /\ SoleOwner
      /\ WorkerOwnerInv /\ ApproverOwnerInv /\ PendingInv /\ MonitorInv /\ RecordsSound
  BY DEF IInv
<1>1. TypeOK'
  BY <1>0, SMTT(30) DEF CreateApprovedPR, Goto
<1>2. ControlInv'
  BY <1>0, SMTT(30) DEF CreateApprovedPR, Goto, ControlInv
<1>3. DraftInv'
  BY <1>0, SMTT(30) DEF CreateApprovedPR, Goto, ControlInv, DraftInv, UnusedInv
<1>4. UnusedInv'
  BY <1>0, SMTT(30) DEF CreateApprovedPR, Goto, ControlInv, DraftInv, UnusedInv
<1>5. ModeInv'
  BY <1>0, SMTT(30)
  DEF CreateApprovedPR, Goto, ModeInv, ControlInv, WorkerOwnerInv, ApproverOwnerInv,
      DraftInv
<1>6. SoleOwner'
  BY <1>0, SMTT(30)
  DEF CreateApprovedPR, Goto, SoleOwner, ControlInv, DraftInv, PendingInv
<1>7. WorkerOwnerInv'
  BY <1>0, SMTT(30)
  DEF CreateApprovedPR, Goto, WorkerOwnerInv, SoleOwner, DraftInv, ControlInv
<1>8. ApproverOwnerInv'
  BY <1>0, SMTT(30)
  DEF CreateApprovedPR, Goto, ApproverOwnerInv, SoleOwner, DraftInv, ControlInv,
      PendingInv
<1>9. PendingInv'
  BY <1>0, SMTT(30)
  DEF CreateApprovedPR, Goto, PendingInv, ModeInv, ControlInv, DraftInv, WorkerOwnerInv
<1>10. MonitorInv'
  BY <1>0, SMTT(30)
  DEF CreateApprovedPR, Goto, MonitorInv, DraftInv, WorkerOwnerInv, ApproverOwnerInv,
      ControlInv
<1>11. RecordsSound'
  BY <1>0, SMTT(30)
  DEF CreateApprovedPR, Goto, RecordsSound, DraftInv, WorkerOwnerInv, ApproverOwnerInv,
      ControlInv, MonitorInv
<1> QED
  BY <1>1, <1>2, <1>3, <1>4, <1>5, <1>6, <1>7, <1>8, <1>9, <1>10, <1>11 DEF IInv

LEMMA PollPRKeeps ==
  ASSUME IInv, NEW m \in Monitor, PollPR(m)
  PROVE  IInv'
<1> USE ActorsAssumption, PlanAssumption, ConfigAssumption, TimeAssumption
        DEF TypeOK, Submitter, Actor, Owns, OwnerControl, Drafts, Untouched, Submitted,
            Control, WorkerControl, ApproverControl, MonitorControl, Modes, RowStatus,
            DraftStatus, MergedStatus, FixState, PRState, planVars, rowVars, fixVars,
            vcsVars, actorVars
<1>0. /\ TypeOK /\ ControlInv /\ DraftInv /\ UnusedInv /\ ModeInv /\ SoleOwner
      /\ WorkerOwnerInv /\ ApproverOwnerInv /\ PendingInv /\ MonitorInv /\ RecordsSound
  BY DEF IInv
<1>1. TypeOK'
  BY <1>0, SMTT(30) DEF PollPR, Goto, Settle
<1>2. ControlInv'
  BY <1>0, SMTT(30) DEF PollPR, Goto, Settle, ControlInv
<1>3. DraftInv'
  BY <1>0, SMTT(30) DEF PollPR, Goto, Settle, ControlInv, DraftInv, UnusedInv
<1>4. UnusedInv'
  BY <1>0, SMTT(30) DEF PollPR, Goto, Settle, ControlInv, DraftInv, UnusedInv
<1>5. ModeInv'
  BY <1>0, SMTT(30)
  DEF PollPR, Goto, Settle, ModeInv, ControlInv, WorkerOwnerInv, ApproverOwnerInv,
      DraftInv
<1>6. SoleOwner'
  BY <1>0, SMTT(30)
  DEF PollPR, Goto, Settle, SoleOwner, ControlInv, DraftInv, PendingInv
<1>7. WorkerOwnerInv'
  BY <1>0, SMTT(30)
  DEF PollPR, Goto, Settle, WorkerOwnerInv, SoleOwner, DraftInv, ControlInv
<1>8. ApproverOwnerInv'
  BY <1>0, SMTT(30)
  DEF PollPR, Goto, Settle, ApproverOwnerInv, SoleOwner, DraftInv, ControlInv,
      PendingInv
<1>9. PendingInv'
  BY <1>0, SMTT(30)
  DEF PollPR, Goto, Settle, PendingInv, ModeInv, ControlInv, DraftInv, WorkerOwnerInv
<1>10. MonitorInv'
  BY <1>0, SMTT(30)
  DEF PollPR, Goto, Settle, MonitorInv, DraftInv, WorkerOwnerInv, ApproverOwnerInv,
      ControlInv
<1>11. RecordsSound'
  BY <1>0, SMTT(30)
  DEF PollPR, Goto, Settle, RecordsSound, DraftInv, WorkerOwnerInv, ApproverOwnerInv,
      ControlInv, MonitorInv
<1> QED
  BY <1>1, <1>2, <1>3, <1>4, <1>5, <1>6, <1>7, <1>8, <1>9, <1>10, <1>11 DEF IInv

LEMMA MonitorStartKeeps ==
  ASSUME IInv, NEW m \in Monitor, MonitorStart(m)
  PROVE  IInv'
<1> USE ActorsAssumption, PlanAssumption, ConfigAssumption, TimeAssumption
        DEF TypeOK, Submitter, Actor, Owns, OwnerControl, Drafts, Untouched, Submitted,
            Control, WorkerControl, ApproverControl, MonitorControl, Modes, RowStatus,
            DraftStatus, MergedStatus, FixState, PRState, planVars, rowVars, fixVars,
            vcsVars, actorVars
<1>0. /\ TypeOK /\ ControlInv /\ DraftInv /\ UnusedInv /\ ModeInv /\ SoleOwner
      /\ WorkerOwnerInv /\ ApproverOwnerInv /\ PendingInv /\ MonitorInv /\ RecordsSound
  BY DEF IInv
<1>1. TypeOK'
  BY <1>0, SMTT(30) DEF MonitorStart, Goto
<1>2. ControlInv'
  BY <1>0, SMTT(30) DEF MonitorStart, Goto, ControlInv
<1>3. DraftInv'
  BY <1>0, SMTT(30) DEF MonitorStart, Goto, ControlInv, DraftInv, UnusedInv
<1>4. UnusedInv'
  BY <1>0, SMTT(30) DEF MonitorStart, Goto, ControlInv, DraftInv, UnusedInv
<1>5. ModeInv'
  BY <1>0, SMTT(30)
  DEF MonitorStart, Goto, ModeInv, ControlInv, WorkerOwnerInv, ApproverOwnerInv,
      DraftInv
<1>6. SoleOwner'
  BY <1>0, SMTT(30)
  DEF MonitorStart, Goto, SoleOwner, ControlInv, DraftInv, PendingInv
<1>7. WorkerOwnerInv'
  BY <1>0, SMTT(30)
  DEF MonitorStart, Goto, WorkerOwnerInv, SoleOwner, DraftInv, ControlInv
<1>8. ApproverOwnerInv'
  BY <1>0, SMTT(30)
  DEF MonitorStart, Goto, ApproverOwnerInv, SoleOwner, DraftInv, ControlInv,
      PendingInv
<1>9. PendingInv'
  BY <1>0, SMTT(30)
  DEF MonitorStart, Goto, PendingInv, ModeInv, ControlInv, DraftInv, WorkerOwnerInv
<1>10. MonitorInv'
  BY <1>0, SMTT(30)
  DEF MonitorStart, Goto, MonitorInv, DraftInv, WorkerOwnerInv, ApproverOwnerInv,
      ControlInv
<1>11. RecordsSound'
  BY <1>0, SMTT(30)
  DEF MonitorStart, Goto, RecordsSound, DraftInv, WorkerOwnerInv, ApproverOwnerInv,
      ControlInv, MonitorInv
<1> QED
  BY <1>1, <1>2, <1>3, <1>4, <1>5, <1>6, <1>7, <1>8, <1>9, <1>10, <1>11 DEF IInv

LEMMA MonitorRevertsKeeps ==
  ASSUME IInv, NEW m \in Monitor, MonitorReverts(m)
  PROVE  IInv'
<1> USE ActorsAssumption, PlanAssumption, ConfigAssumption, TimeAssumption
        DEF TypeOK, Submitter, Actor, Owns, OwnerControl, Drafts, Untouched, Submitted,
            Control, WorkerControl, ApproverControl, MonitorControl, Modes, RowStatus,
            DraftStatus, MergedStatus, FixState, PRState, planVars, rowVars, fixVars,
            vcsVars, actorVars
<1>0. /\ TypeOK /\ ControlInv /\ DraftInv /\ UnusedInv /\ ModeInv /\ SoleOwner
      /\ WorkerOwnerInv /\ ApproverOwnerInv /\ PendingInv /\ MonitorInv /\ RecordsSound
  BY DEF IInv
<1>1. TypeOK'
  BY <1>0, SMTT(30) DEF MonitorReverts, Goto
<1>2. ControlInv'
  BY <1>0, SMTT(30) DEF MonitorReverts, Goto, ControlInv
<1>3. DraftInv'
  BY <1>0, SMTT(30) DEF MonitorReverts, Goto, ControlInv, DraftInv, UnusedInv
<1>4. UnusedInv'
  BY <1>0, SMTT(30) DEF MonitorReverts, Goto, ControlInv, DraftInv, UnusedInv
<1>5. ModeInv'
  BY <1>0, SMTT(30)
  DEF MonitorReverts, Goto, ModeInv, ControlInv, WorkerOwnerInv, ApproverOwnerInv,
      DraftInv
<1>6. SoleOwner'
  BY <1>0, SMTT(30)
  DEF MonitorReverts, Goto, SoleOwner, ControlInv, DraftInv, PendingInv
<1>7. WorkerOwnerInv'
  BY <1>0, SMTT(30)
  DEF MonitorReverts, Goto, WorkerOwnerInv, SoleOwner, DraftInv, ControlInv
<1>8. ApproverOwnerInv'
  BY <1>0, SMTT(30)
  DEF MonitorReverts, Goto, ApproverOwnerInv, SoleOwner, DraftInv, ControlInv,
      PendingInv
<1>9. PendingInv'
  BY <1>0, SMTT(30)
  DEF MonitorReverts, Goto, PendingInv, ModeInv, ControlInv, DraftInv, WorkerOwnerInv
<1>10. MonitorInv'
  BY <1>0, SMTT(30)
  DEF MonitorReverts, Goto, MonitorInv, DraftInv, WorkerOwnerInv, ApproverOwnerInv,
      ControlInv
<1>11. RecordsSound'
  BY <1>0, SMTT(30)
  DEF MonitorReverts, Goto, RecordsSound, DraftInv, WorkerOwnerInv, ApproverOwnerInv,
      ControlInv, MonitorInv
<1> QED
  BY <1>1, <1>2, <1>3, <1>4, <1>5, <1>6, <1>7, <1>8, <1>9, <1>10, <1>11 DEF IInv

LEMMA ObserveKeeps ==
  ASSUME IInv, NEW m \in Monitor, Observe(m)
  PROVE  IInv'
<1> USE ActorsAssumption, PlanAssumption, ConfigAssumption, TimeAssumption
        DEF TypeOK, Submitter, Actor, Owns, OwnerControl, Drafts, Untouched, Submitted,
            Control, WorkerControl, ApproverControl, MonitorControl, Modes, RowStatus,
            DraftStatus, MergedStatus, FixState, PRState, planVars, rowVars, fixVars,
            vcsVars, actorVars
<1>0. /\ TypeOK /\ ControlInv /\ DraftInv /\ UnusedInv /\ ModeInv /\ SoleOwner
      /\ WorkerOwnerInv /\ ApproverOwnerInv /\ PendingInv /\ MonitorInv /\ RecordsSound
  BY DEF IInv
<1>1. TypeOK'
  BY <1>0, SMTT(30) DEF Observe, Goto, Settle
<1>2. ControlInv'
  BY <1>0, SMTT(30) DEF Observe, Goto, Settle, ControlInv
<1>3. DraftInv'
  BY <1>0, SMTT(30) DEF Observe, Goto, Settle, ControlInv, DraftInv, UnusedInv
<1>4. UnusedInv'
  BY <1>0, SMTT(30) DEF Observe, Goto, Settle, ControlInv, DraftInv, UnusedInv
<1>5. ModeInv'
  BY <1>0, SMTT(30)
  DEF Observe, Goto, Settle, ModeInv, ControlInv, WorkerOwnerInv, ApproverOwnerInv,
      DraftInv
<1>6. SoleOwner'
  BY <1>0, SMTT(30)
  DEF Observe, Goto, Settle, SoleOwner, ControlInv, DraftInv, PendingInv
<1>7. WorkerOwnerInv'
  BY <1>0, SMTT(30)
  DEF Observe, Goto, Settle, WorkerOwnerInv, SoleOwner, DraftInv, ControlInv
<1>8. ApproverOwnerInv'
  BY <1>0, SMTT(30)
  DEF Observe, Goto, Settle, ApproverOwnerInv, SoleOwner, DraftInv, ControlInv,
      PendingInv
<1>9. PendingInv'
  BY <1>0, SMTT(30)
  DEF Observe, Goto, Settle, PendingInv, ModeInv, ControlInv, DraftInv, WorkerOwnerInv
<1>10. MonitorInv'
  BY <1>0, SMTT(30)
  DEF Observe, Goto, Settle, MonitorInv, DraftInv, WorkerOwnerInv, ApproverOwnerInv,
      ControlInv
<1>11. RecordsSound'
  BY <1>0, SMTT(30)
  DEF Observe, Goto, Settle, RecordsSound, DraftInv, WorkerOwnerInv, ApproverOwnerInv,
      ControlInv, MonitorInv
<1> QED
  BY <1>1, <1>2, <1>3, <1>4, <1>5, <1>6, <1>7, <1>8, <1>9, <1>10, <1>11 DEF IInv

LEMMA OpenRevertKeeps ==
  ASSUME IInv, NEW m \in Monitor, OpenRevert(m)
  PROVE  IInv'
<1> USE ActorsAssumption, PlanAssumption, ConfigAssumption, TimeAssumption
        DEF TypeOK, Submitter, Actor, Owns, OwnerControl, Drafts, Untouched, Submitted,
            Control, WorkerControl, ApproverControl, MonitorControl, Modes, RowStatus,
            DraftStatus, MergedStatus, FixState, PRState, planVars, rowVars, fixVars,
            vcsVars, actorVars
<1>0. /\ TypeOK /\ ControlInv /\ DraftInv /\ UnusedInv /\ ModeInv /\ SoleOwner
      /\ WorkerOwnerInv /\ ApproverOwnerInv /\ PendingInv /\ MonitorInv /\ RecordsSound
  BY DEF IInv
<1>1. TypeOK'
  BY <1>0, SMTT(30) DEF OpenRevert, Goto, Settle, CountRevert, ControlInv
<1>2. ControlInv'
  BY <1>0, SMTT(30) DEF OpenRevert, Goto, Settle, CountRevert, ControlInv
<1>3. DraftInv'
  BY <1>0, SMTT(30)
  DEF OpenRevert, Goto, Settle, CountRevert, ControlInv, DraftInv, UnusedInv
<1>4. UnusedInv'
  BY <1>0, SMTT(30)
  DEF OpenRevert, Goto, Settle, CountRevert, ControlInv, DraftInv, UnusedInv
<1>5. ModeInv'
  BY <1>0, SMTT(30)
  DEF OpenRevert, Goto, Settle, CountRevert, ModeInv, ControlInv, WorkerOwnerInv,
      ApproverOwnerInv, DraftInv
<1>6. SoleOwner'
  BY <1>0, SMTT(30)
  DEF OpenRevert, Goto, Settle, CountRevert, SoleOwner, ControlInv, DraftInv, PendingInv
<1>7. WorkerOwnerInv'
  BY <1>0, SMTT(30)
  DEF OpenRevert, Goto, Settle, CountRevert, WorkerOwnerInv, SoleOwner, DraftInv,
      ControlInv
<1>8. ApproverOwnerInv'
  BY <1>0, SMTT(30)
  DEF OpenRevert, Goto, Settle, CountRevert, ApproverOwnerInv, SoleOwner, DraftInv,
      ControlInv, PendingInv
<1>9. PendingInv'
  BY <1>0, SMTT(30)
  DEF OpenRevert, Goto, Settle, CountRevert, PendingInv, ModeInv, ControlInv, DraftInv,
      WorkerOwnerInv
<1>10. MonitorInv'
  BY <1>0, SMTT(30)
  DEF OpenRevert, Goto, Settle, CountRevert, MonitorInv, DraftInv, WorkerOwnerInv,
      ApproverOwnerInv, ControlInv
<1>11. RecordsSound'
  BY <1>0, SMTT(30)
  DEF OpenRevert, Goto, Settle, CountRevert, RecordsSound, DraftInv, WorkerOwnerInv,
      ApproverOwnerInv, ControlInv, MonitorInv
<1> QED
  BY <1>1, <1>2, <1>3, <1>4, <1>5, <1>6, <1>7, <1>8, <1>9, <1>10, <1>11 DEF IInv

(* handleRemediation.                                                      *)
LEMMA WorkerKeeps ==
  ASSUME IInv, NEW w \in Worker, Generate(w) \/ WorkerStep(w)
  PROVE  IInv'
<1> USE ActorsAssumption, PlanAssumption, ConfigAssumption, TimeAssumption
        DEF TypeOK, IInv, ControlInv, DraftInv, UnusedInv, ModeInv, SoleOwner,
            WorkerOwnerInv, ApproverOwnerInv, PendingInv, MonitorInv, RecordsSound,
            Submitter, Actor, Owns, OwnerControl, Drafts, Untouched, Submitted, Control,
            WorkerControl, ApproverControl, MonitorControl, Modes, RowStatus,
            DraftStatus, MergedStatus, FixState, PRState, planVars, rowVars, fixVars,
            vcsVars, actorVars
<1>1. CASE Generate(w)
  BY <1>1, SMTT(30) DEF Generate, Goto
<1>2. CASE FilterByHistory(w)
  BY <1>2, FilterByHistoryKeeps
<1>3. CASE FilterByProvider(w)
  BY <1>3, SMTT(30) DEF FilterByProvider, Goto, Release
<1>4. CASE NothingLeft(w)
  BY <1>4, SMTT(30) DEF NothingLeft, Goto
<1>5. CASE ChooseMode(w)
  BY <1>5, SMTT(30) DEF ChooseMode, Goto, EffectiveMode
<1>6. CASE SavePlan(w)
  BY <1>6, SavePlanKeeps
<1>7. CASE BatchDone(w)
  BY <1>7, SMTT(30) DEF BatchDone, Goto
<1>8. CASE StoreFix(w)
  BY <1>8, StoreFixKeeps
<1>9. CASE Announce(w)
  BY <1>9, SMTT(30) DEF Announce, Goto
<1>10. CASE VerifySource(w)
  BY <1>10, VerifySourceKeeps
<1>11. CASE CheckLimit(w)
  BY <1>11, SMTT(30) DEF CheckLimit, Goto
<1>12. CASE CreatePR(w)
  BY <1>12, CreatePRKeeps
<1>13. CASE RecordPR(w)
  BY <1>13, RecordPRKeeps
<1>14. CASE SkipPlan(w)
  BY <1>14, SMTT(30) DEF SkipPlan, Goto, Mark, MarkOrLose
<1>15. CASE StopBatch(w)
  BY <1>15, SMTT(30) DEF StopBatch, Goto, Mark, MarkOrLose, Release
<1> QED
  BY <1>1, <1>2, <1>3, <1>4, <1>5, <1>6, <1>7, <1>8, <1>9, <1>10, <1>11, <1>12, <1>13, <1>14, <1>15
  DEF WorkerStep

(* SubmitPendingFix and what happens to its request.                       *)
LEMMA ApproverKeeps ==
  ASSUME IInv, NEW a \in Approver,
         Click(a) \/ HandlerReturns(a) \/ ApproverStep(a) \/ CrashApprover(a)
  PROVE  IInv'
<1> USE ActorsAssumption, PlanAssumption, ConfigAssumption, TimeAssumption
        DEF TypeOK, IInv, ControlInv, DraftInv, UnusedInv, ModeInv, SoleOwner,
            WorkerOwnerInv, ApproverOwnerInv, PendingInv, MonitorInv, RecordsSound,
            Submitter, Actor, Owns, OwnerControl, Drafts, Untouched, Submitted, Control,
            WorkerControl, ApproverControl, MonitorControl, Modes, RowStatus,
            DraftStatus, MergedStatus, FixState, PRState, planVars, rowVars, fixVars,
            vcsVars, actorVars
<1>1. CASE Click(a)
  BY <1>1, SMTT(30) DEF Click, Goto
<1>2. CASE HandlerReturns(a)
  BY <1>2, SMTT(30) DEF HandlerReturns
<1>3. CASE Take(a)
  BY <1>3, TakeKeeps
<1>4. CASE VerifyPending(a)
  BY <1>4, SMTT(30) DEF VerifyPending, Goto
<1>5. CASE CreateApprovedPR(a)
  BY <1>5, CreateApprovedPRKeeps
<1>6. CASE RecordApproval(a)
  BY <1>6, SMTT(30) DEF RecordApproval, Goto, GiveUp, Mark, MarkOrLose
<1>7. CASE CrashApprover(a)
  BY <1>7, SMTT(30) DEF CrashApprover, Stopped
<1> QED
  BY <1>1, <1>2, <1>3, <1>4, <1>5, <1>6, <1>7 DEF ApproverStep

(* monitorRemediationOutcomes.                                             *)
LEMMA MonitorKeeps ==
  ASSUME IInv, NEW m \in Monitor, MonitorStep(m)
  PROVE  IInv'
<1> USE ActorsAssumption, PlanAssumption, ConfigAssumption, TimeAssumption
        DEF TypeOK, IInv, ControlInv, DraftInv, UnusedInv, ModeInv, SoleOwner,
            WorkerOwnerInv, ApproverOwnerInv, PendingInv, MonitorInv, RecordsSound,
            Submitter, Actor, Owns, OwnerControl, Drafts, Untouched, Submitted, Control,
            WorkerControl, ApproverControl, MonitorControl, Modes, RowStatus,
            DraftStatus, MergedStatus, FixState, PRState, planVars, rowVars, fixVars,
            vcsVars, actorVars
<1>1. CASE MonitorStart(m)
  BY <1>1, MonitorStartKeeps
<1>2. CASE PollPR(m)
  BY <1>2, PollPRKeeps
<1>3. CASE Observe(m)
  BY <1>3, ObserveKeeps
<1>4. CASE SettlePR(m)
  BY <1>4, SMTT(30) DEF SettlePR, Goto, Mark, MarkOrLose
<1>5. CASE MonitorReverts(m)
  BY <1>5, MonitorRevertsKeeps
<1>6. CASE OpenRevert(m)
  BY <1>6, OpenRevertKeeps
<1>7. CASE SettleRevert(m)
  BY <1>7, SMTT(30) DEF SettleRevert, Goto, Mark, MarkOrLose
<1>8. CASE MonitorEnd(m)
  BY <1>8, SMTT(30) DEF MonitorEnd, Goto
<1> QED
  BY <1>1, <1>2, <1>3, <1>4, <1>5, <1>6, <1>7, <1>8 DEF MonitorStep

(* The clean-up, people, time and the death of the leader.                 *)
LEMMA EnvironmentKeeps ==
  ASSUME IInv, \/ CleanupExpired \/ Tick \/ CrashLeader
               \/ \E p \in Plan : Merge(p) \/ Close(p)
               \/ \E t \in Target : EditSource(t)
  PROVE  IInv'
<1> USE ActorsAssumption, PlanAssumption, ConfigAssumption, TimeAssumption
        DEF TypeOK, IInv, ControlInv, DraftInv, UnusedInv, ModeInv, SoleOwner,
            WorkerOwnerInv, ApproverOwnerInv, PendingInv, MonitorInv, RecordsSound,
            Submitter, Actor, Owns, OwnerControl, Drafts, Untouched, Submitted, Control,
            WorkerControl, ApproverControl, MonitorControl, Modes, RowStatus,
            DraftStatus, MergedStatus, FixState, PRState, planVars, rowVars, fixVars,
            vcsVars, actorVars
<1>1. CASE CleanupExpired
  BY <1>1, SMTT(30) DEF CleanupExpired
<1>2. CASE Tick
  BY <1>2, SMTT(30) DEF Tick, Older
<1>3. CASE CrashLeader
  BY <1>3, SMTT(30) DEF CrashLeader, Stopped, Release
<1>4. ASSUME NEW p \in Plan, Merge(p) PROVE IInv'
  BY <1>4, SMTT(30) DEF Merge
<1>5. ASSUME NEW p \in Plan, Close(p) PROVE IInv'
  BY <1>5, SMTT(30) DEF Close
<1>6. ASSUME NEW t \in Target, EditSource(t) PROVE IInv'
  BY <1>6, SMTT(30) DEF EditSource
<1> QED
  BY <1>1, <1>2, <1>3, <1>4, <1>5, <1>6

LEMMA IInvNext == IInv /\ [Next]_vars => IInv'
<1> SUFFICES ASSUME IInv, [Next]_vars
             PROVE  IInv'
  OBVIOUS
<1>1. CASE UNCHANGED vars
  BY <1>1 DEF vars, IInv, TypeOK, ControlInv, DraftInv, UnusedInv, ModeInv, SoleOwner,
              WorkerOwnerInv, ApproverOwnerInv, PendingInv, MonitorInv, RecordsSound,
              Owns, Drafts, Untouched, Submitted,
              planVars, rowVars, fixVars, vcsVars, actorVars
<1>2. QED
  BY <1>1, WorkerKeeps, ApproverKeeps, MonitorKeeps, EnvironmentKeeps DEF Next

(* The inductive invariant: every goroutine that may still write a row or  *)
(* open a pull request knows what it needs to know about it.               *)
THEOREM Invariance == Spec => []IInv
  BY IInvInit, IInvNext, PTL DEF Spec

(* Every variable keeps its type.                                          *)
THEOREM TypeCorrect == Spec => []TypeOK
  BY Invariance, PTL DEF IInv

(* Whatever fails or crashes, and however many monitors run at a time, no  *)
(* row claims more than what happened at the VCS host.                     *)
THEOREM RecordsAreSound == Spec => []RecordsSound
  BY Invariance, PTL DEF IInv

(* A plan with a pull request left the drafts, so its mode is decided and  *)
(* says what authorised it.                                                *)
LEMMA IInvMandated == IInv => Mandated
  BY ConfigAssumption DEF IInv, TypeOK, ModeInv, Untouched, Mandated, Modes, PRState, FixState

(* A pull request exists only by an approval that took its pending fix, or *)
(* in auto-fix mode for a confident batch of low risk.                     *)
THEOREM PullRequestsMandated == Spec => []Mandated
  BY Invariance, IInvMandated, PTL

LEMMA IInvDoubt == IInv => DoubtNeverOpens
  BY ConfigAssumption DEF IInv, TypeOK, ModeInv, Untouched, DoubtNeverOpens, Modes, PRState

(* A batch of low confidence opens nothing in auto-fix mode.               *)
THEOREM DoubtOpensNothing == Spec => []DoubtNeverOpens
  BY Invariance, IInvDoubt, PTL

(* A submitter at work owns its plan, and nobody shares it but approvals   *)
(* that have yet to find the fix gone.                                     *)
LEMMA IInvOneSubmission == IInv => OneSubmission
<1> SUFFICES ASSUME IInv, NEW a \in Submitter, pc[a] \in {"verify", "limit", "create"}
             PROVE  /\ pr[cur[a]] = "none"
                    /\ \A b \in Submitter \ {a} : cur[b] = cur[a] => pc[b] = "take"
  BY DEF OneSubmission
<1>1. cur[a] \in Plan /\ Owns(a, cur[a])
  BY DEF IInv, TypeOK, ControlInv, Submitter, Actor, Owns, OwnerControl,
         WorkerControl, ApproverControl
<1>2. pr[cur[a]] = "none"
  <2>1. CASE a \in Worker
    BY <1>1, <2>1 DEF IInv, WorkerOwnerInv
  <2>2. CASE a \in Approver
    BY <1>1, <2>2, ActorsAssumption DEF IInv, ControlInv, ApproverControl, ApproverOwnerInv
  <2>3. QED
    BY <2>1, <2>2 DEF Submitter
<1>3. ASSUME NEW b \in Submitter \ {a}, cur[b] = cur[a], pc[b] # "take"
      PROVE  FALSE
  <2>1. ~Owns(b, cur[a])
    BY <1>1, <1>3 DEF IInv, SoleOwner
  <2>2. b \in Worker /\ pc[b] = "provider"
    BY <1>1, <1>3, <2>1, PlanAssumption
    DEF IInv, TypeOK, ControlInv, Submitter, Owns, OwnerControl, WorkerControl, ApproverControl
  <2>3. cur[a] \in Drafts(b)
    BY <1>3, <2>2 DEF IInv, ControlInv, Drafts
  <2>4. QED
    BY <1>1, <2>2, <2>3 DEF IInv, DraftInv
<1>4. QED
  BY <1>2, <1>3

(* An approval pressed twice, or a worker beside it, opens one pull        *)
(* request: a plan is submitted by one goroutine and only while it has     *)
(* none.                                                                   *)
THEOREM SubmittedOnce == Spec => []OneSubmission
  BY Invariance, IInvOneSubmission, PTL
(* Under the invariant each writer of a status moves its row forward.      *)
LEMMA RowsMoveForward ==
  IInv /\ [Next]_vars => [\A p \in Plan : row'[p] # row[p] => Forward(row[p], row'[p])]_row
<1> SUFFICES ASSUME IInv, Next, NEW p \in Plan, row'[p] # row[p]
             PROVE  Forward(row[p], row'[p])
  BY DEF vars, rowVars
<1> USE DEF IInv, TypeOK, Forward, Goto, Owns, OwnerControl, DraftStatus, MergedStatus
<1>1. ASSUME NEW w \in Worker, SavePlan(w) PROVE Forward(row[p], row'[p])
  BY <1>1 DEF SavePlan, SaveRow, DraftInv, Drafts, Untouched
<1>2. ASSUME NEW w \in Worker, RecordPR(w) \/ SkipPlan(w) \/ StopBatch(w)
      PROVE  Forward(row[p], row'[p])
  <2>1. cur[w] \in Plan /\ Owns(w, cur[w])
    BY <1>2 DEF RecordPR, SkipPlan, StopBatch, ControlInv, Actor, Submitter
  <2>2. row[cur[w]] \in DraftStatus
    BY <2>1 DEF WorkerOwnerInv
  <2>3. QED
    BY <1>2, <2>1, <2>2 DEF RecordPR, SkipPlan, StopBatch, MarkOrLose, Mark, rowVars
<1>3. ASSUME NEW a \in Approver, RecordApproval(a) PROVE Forward(row[p], row'[p])
  <2>1. cur[a] \in Plan /\ Owns(a, cur[a])
    BY <1>3 DEF RecordApproval, ControlInv, Actor, Submitter
  <2>2. row[cur[a]] \in DraftStatus
    BY <2>1 DEF ApproverOwnerInv
  <2>3. QED
    BY <1>3, <2>1, <2>2 DEF RecordApproval, MarkOrLose, Mark, rowVars
<1>4. ASSUME NEW m \in Monitor, SettlePR(m) PROVE Forward(row[p], row'[p])
  <2>1. cur[m] = p /\ row'[p] = verdict[m] /\ pc[m] = "settle"
    BY <1>4 DEF SettlePR, MarkOrLose, Mark, rowVars
  <2>2. QED
    BY <2>1 DEF MonitorInv, Submitted, RecordsSound
<1>5. ASSUME NEW m \in Monitor, SettleRevert(m) PROVE Forward(row[p], row'[p])
  <2>1. cur[m] = p /\ row'[p] = verdict[m] /\ pc[m] = "settle_revert"
    BY <1>5 DEF SettleRevert, MarkOrLose, Mark, rowVars
  <2>2. QED
    BY <2>1 DEF MonitorInv
<1>6. QED
  BY <1>1, <1>2, <1>3, <1>4, <1>5
  DEF Next, WorkerStep, ApproverStep, MonitorStep, Generate, FilterByHistory,
      FilterByProvider, NothingLeft, ChooseMode, BatchDone, StoreFix, Announce,
      VerifySource, CheckLimit, CreatePR, Click, HandlerReturns, Take, VerifyPending,
      CreateApprovedPR, CrashApprover, MonitorStart, PollPR, Observe, MonitorReverts,
      OpenRevert, MonitorEnd, CleanupExpired, Merge, Close, EditSource, Tick, CrashLeader,
      rowVars

(* The status of a row only moves forward, for any number of writers: none *)
(* of the unconditional UPDATEs ever overwrites a later status.            *)
THEOREM LifecycleMovesForward == Spec => LifecycleForward
  BY Invariance, RowsMoveForward, PTL DEF Spec, LifecycleForward
=============================================================================
