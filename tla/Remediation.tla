---------------------------- MODULE Remediation ----------------------------
(***************************************************************************)
(* The remediation lifecycle of Fixora: from the patch plans that          *)
(* handleRemediation produces for a failing workload, through the pending  *)
(* approval or the automatic pull request, to the monitor that follows the *)
(* merge and opens a revert when production regresses.                     *)
(*                                                                         *)
(* Shared state: the rows of remediation_outcomes, the pending_fixes table *)
(* (or the pendingFixes map of a controller without a database) and the    *)
(* pull requests at the VCS host.  Actors: the goroutines that run         *)
(* handleRemediation (the queue worker and the leak scanner), one          *)
(* goroutine per approval click, the monitor of the leader (two of them    *)
(* while leadership is changing hands), the expiry timer, and people who   *)
(* click, merge, close and edit.                                           *)
(***************************************************************************)
EXTENDS Naturals

CONSTANTS
    Target,           \* branch prefixes: repository, strategy, workload and file
    CreatesFile,      \* targets whose plan creates its file: nothing to re-read
    Plan,             \* identities of plans; bounds how many are ever live
    Worker, Approver, Monitor,
    Mode,             \* config.Mode
    HasDB,            \* the history cache has a database
    HonoursCtx,       \* the VCS client stops on a cancelled context (GitHub's does)
    Faults,           \* the kinds of failure that may happen
    ActiveHold,       \* age from which a failed or generated row stops blocking
    ObservationDelay, \* remediationObservationDelay
    ApprovalTTL,      \* config.ModeApprovalTTL; 0 when approvals do not expire
    AgeCap,           \* ages are not told apart beyond it
    MaxReverts,       \* revert pull requests of one plan are counted up to it
    NoPlan, NoTarget

Modes == {"auto-fix", "click-to-fix", "dry-run"}

(* "db": a statement fails and changes nothing.  "commit": it takes effect *)
(* but its reply is lost.  "vcs": a call to the VCS host fails.  "reply":  *)
(* it takes effect but returns an error.  "crash": a process dies.         *)
FaultKinds == {"db", "commit", "vcs", "reply", "crash"}

Submitter == Worker \cup Approver
Actor     == Submitter \cup Monitor

ASSUME ActorsAssumption ==
    /\ Worker \cap Approver = {}
    /\ Submitter \cap Monitor = {}
ASSUME PlanAssumption ==
    /\ NoPlan \notin Plan
    /\ NoTarget \notin Target
    /\ CreatesFile \subseteq Target
ASSUME ConfigAssumption ==
    /\ Mode \in Modes
    /\ HasDB \in BOOLEAN
    /\ HonoursCtx \in BOOLEAN
    /\ Faults \subseteq FaultKinds
ASSUME TimeAssumption ==
    /\ {ActiveHold, ObservationDelay, ApprovalTTL, AgeCap, MaxReverts} \subseteq Nat
    /\ AgeCap >= ActiveHold
    /\ AgeCap >= ObservationDelay
    /\ AgeCap > ApprovalTTL

VARIABLES
    target,    \* the branch prefix of each plan
    mode,      \* the effective mode its batch ended up in
    confident, \* plans of batches with confidence of at least 85
    risky,     \* plans of batches in which some plan requires approval
    fresh,     \* plans whose source file is still the one they were made from
    row,       \* status of the remediation_outcomes row
    tracked,   \* plans whose row id reached the program
    age,       \* time since the row's updated_at
    fix,       \* the entry in pending_fixes
    fixAge,    \* time since the entry's created_at
    pr,        \* the pull request
    reverts,   \* number of revert pull requests opened
    pc, cur,   \* control of each actor and the plan it is working on
    todo,      \* worker: plans to filter; monitor: pr_opened rows, then rows to revert
    batch,     \* worker: filtered plans; monitor: observing rows due for a look
    ctxLive,   \* approvers whose HTTP request has not returned
    verdict    \* status a monitor is about to record

planVars  == <<target, mode, confident, risky>>
rowVars   == <<row, tracked, age>>
fixVars   == <<fix, fixAge>>
vcsVars   == <<fresh, pr, reverts>>
actorVars == <<pc, cur, todo, batch, ctxLive, verdict>>
vars      == <<planVars, rowVars, fixVars, vcsVars, actorVars>>

MergedStatus == {"observing", "production_failed", "revert_opened", "revert_failed"}
DraftStatus  == {"absent", "generated", "pending_approval"}
RowStatus    == DraftStatus \cup {"pr_opened", "pr_failed"} \cup MergedStatus
FixState     == {"none", "unannounced", "pending", "taken", "expired"}
PRState      == {"none", "open", "closed", "merged"}
Control      == {"idle", "history", "provider", "save", "store", "announce",
                 "verify", "limit", "create", "record", "skip", "stop", "take",
                 "poll", "settle", "revert", "settle_revert"}

TypeOK ==
    /\ target \in [Plan -> Target \cup {NoTarget}]
    /\ mode \in [Plan -> Modes \cup {"undecided"}]
    /\ {confident, risky, fresh, tracked} \subseteq SUBSET Plan
    /\ row \in [Plan -> RowStatus]
    /\ fix \in [Plan -> FixState]
    /\ age \in [Plan -> 0..AgeCap] /\ fixAge \in [Plan -> 0..AgeCap]
    /\ pr \in [Plan -> PRState]
    /\ reverts \in [Plan -> 0..MaxReverts]
    /\ pc \in [Actor -> Control]
    /\ cur \in [Actor -> Plan \cup {NoPlan}]
    /\ todo \in [Actor -> SUBSET Plan] /\ batch \in [Actor -> SUBSET Plan]
    /\ ctxLive \subseteq Approver
    /\ verdict \in [Monitor -> RowStatus]

Init ==
    /\ target = [p \in Plan |-> NoTarget]
    /\ mode = [p \in Plan |-> "undecided"]
    /\ confident = {} /\ risky = {} /\ fresh = {} /\ tracked = {}
    /\ row = [p \in Plan |-> "absent"]
    /\ fix = [p \in Plan |-> "none"]
    /\ age = [p \in Plan |-> 0] /\ fixAge = [p \in Plan |-> 0]
    /\ pr = [p \in Plan |-> "none"]
    /\ reverts = [p \in Plan |-> 0]
    /\ pc = [a \in Actor |-> "idle"]
    /\ cur = [a \in Actor |-> NoPlan]
    /\ todo = [a \in Actor |-> {}] /\ batch = [a \in Actor |-> {}]
    /\ ctxLive = {}
    /\ verdict = [m \in Monitor |-> "absent"]

-----------------------------------------------------------------------------
(* Steps shared by the actors.                                             *)

Goto(a, label) == pc' = [pc EXCEPT ![a] = label]

(* MarkRemediationStatus and MarkRemediationRevertOpened: an UPDATE by id, *)
(* whatever the status was, that does nothing without an id and whose      *)
(* error is only logged.                                                   *)
Mark(p, status) ==
    IF p \in tracked
      THEN /\ row' = [row EXCEPT ![p] = status]
           /\ age' = [age EXCEPT ![p] = 0]
           /\ UNCHANGED tracked
      ELSE UNCHANGED rowVars

MarkOrLose(p, status) ==
    \/ Mark(p, status)
    \/ "db" \in Faults /\ UNCHANGED rowVars

(* ActiveRemediationForPlan: a row that blocks another plan of its target. *)
ActiveRow(p) ==
    \/ row[p] \in {"pending_approval", "pr_opened", "observing"}
    \/ /\ row[p] \in {"generated", "pr_failed", "production_failed",
                      "revert_opened", "revert_failed"}
       /\ age[p] < ActiveHold

(* What the two look-ups before the VCS call find for the target of p: the *)
(* map of pending fixes without a database, the table of rows with one.    *)
KnownActive(p) ==
    \E q \in Plan : /\ target[q] = target[p]
                    /\ IF HasDB THEN ActiveRow(q)
                                ELSE fix[q] \in {"unannounced", "pending"}

OpenPRExists(p) == \E q \in Plan : target[q] = target[p] /\ pr[q] = "open"

(* Mutant: the source is not read again.                                   *)
SourceNotReread(p) == TRUE

(* validatePROptionsFresh compares only files that are modified.           *)
SourceUnchanged(p) == p \in fresh \/ target[p] \in CreatesFile

(* Plans a batch drops leave no trace: their identities can be used again. *)
Release(S) ==
    /\ target' = [p \in Plan |-> IF p \in S THEN NoTarget ELSE target[p]]
    /\ mode' = [p \in Plan |-> IF p \in S THEN "undecided" ELSE mode[p]]
    /\ confident' = confident \ S
    /\ risky' = risky \ S
    /\ fresh' = fresh \ S

-----------------------------------------------------------------------------
(* handleRemediation, one goroutine per worker.                            *)

(* The AI patches passed validation; one plan per changed file.            *)
Generate(w) ==
    /\ pc[w] = "idle"
    /\ \E B \in SUBSET {p \in Plan : target[p] = NoTarget} \ {{}} :
         \E t \in [B -> Target] :
            /\ \A p, q \in B : t[p] = t[q] => p = q
            /\ target' = [p \in Plan |-> IF p \in B THEN t[p] ELSE target[p]]
            /\ fresh' = fresh \cup B
            /\ todo' = [todo EXCEPT ![w] = B]
    /\ Goto(w, "history")
    /\ UNCHANGED <<mode, confident, risky, rowVars, fixVars, pr, reverts,
                   cur, batch, ctxLive, verdict>>

(* filterActiveRemediationPlans, first half: an active plan is dropped, as *)
(* is one whose look-up fails.                                             *)
FilterByHistory(w) ==
    /\ pc[w] = "history"
    /\ \E p \in todo[w] :
         \/ /\ KnownActive(p) \/ (HasDB /\ "db" \in Faults)
            /\ todo' = [todo EXCEPT ![w] = @ \ {p}]
            /\ Release({p})
            /\ UNCHANGED <<pc, cur>>
         \/ /\ ~KnownActive(p)
            /\ cur' = [cur EXCEPT ![w] = p]
            /\ Goto(w, "provider")
            /\ UNCHANGED <<planVars, fresh, todo>>
    /\ UNCHANGED <<rowVars, fixVars, pr, reverts, batch, ctxLive, verdict>>

(* Mutant: a plan whose look-up at the host fails is kept.                 *)
FilterFailsOpen(w) ==
    /\ pc[w] = "provider"
    /\ \/ /\ OpenPRExists(cur[w])
          /\ Release({cur[w]})
          /\ UNCHANGED batch
       \/ /\ ~OpenPRExists(cur[w]) \/ "vcs" \in Faults
          /\ batch' = [batch EXCEPT ![w] = @ \cup {cur[w]}]
          /\ UNCHANGED <<planVars, fresh>>
    /\ todo' = [todo EXCEPT ![w] = @ \ {cur[w]}]
    /\ cur' = [cur EXCEPT ![w] = NoPlan]
    /\ Goto(w, "history")
    /\ UNCHANGED <<rowVars, fixVars, pr, reverts, ctxLive, verdict>>

(* Second half: PullRequestExists at the VCS host.                         *)
FilterByProvider(w) ==
    LET p == cur[w] IN
    /\ pc[w] = "provider"
    /\ \/ /\ OpenPRExists(p) \/ "vcs" \in Faults
          /\ Release({p})
          /\ UNCHANGED batch
       \/ /\ ~OpenPRExists(p)
          /\ batch' = [batch EXCEPT ![w] = @ \cup {p}]
          /\ UNCHANGED <<planVars, fresh>>
    /\ todo' = [todo EXCEPT ![w] = @ \ {p}]
    /\ cur' = [cur EXCEPT ![w] = NoPlan]
    /\ Goto(w, "history")
    /\ UNCHANGED <<rowVars, fixVars, pr, reverts, ctxLive, verdict>>

NothingLeft(w) ==
    /\ pc[w] = "history"
    /\ todo[w] = {} /\ batch[w] = {}
    /\ Goto(w, "idle")
    /\ UNCHANGED <<planVars, rowVars, fixVars, vcsVars, cur, todo, batch, ctxLive, verdict>>

(* Mutants: risk is not looked at; risk is looked at before confidence.    *)
ModeWithoutRisk(conf, risk) ==
    IF Mode = "auto-fix" /\ ~conf THEN "dry-run" ELSE Mode
ModeRiskFirst(conf, risk) ==
    IF Mode = "auto-fix" /\ risk THEN "click-to-fix"
    ELSE IF Mode = "auto-fix" /\ ~conf THEN "dry-run"
    ELSE Mode

(* Low confidence turns auto-fix into a dry run, a plan that requires      *)
(* approval turns it into click-to-fix; the other modes look at neither.   *)
EffectiveMode(conf, risk) ==
    IF Mode = "auto-fix" /\ ~conf THEN "dry-run"
    ELSE IF Mode = "auto-fix" /\ risk THEN "click-to-fix"
    ELSE Mode

ChooseMode(w) ==
    /\ pc[w] = "history"
    /\ todo[w] = {} /\ batch[w] # {}
    /\ \E conf, risk \in BOOLEAN :
         /\ Mode # "auto-fix" => conf /\ ~risk
         /\ mode' = [p \in Plan |-> IF p \in batch[w] THEN EffectiveMode(conf, risk)
                                                      ELSE mode[p]]
         /\ confident' = IF conf THEN confident \cup batch[w] ELSE confident
         /\ risky' = IF risk THEN risky \cup batch[w] ELSE risky
    /\ Goto(w, "save")
    /\ UNCHANGED <<target, rowVars, fixVars, vcsVars, cur, todo, batch, ctxLive, verdict>>

(* saveRemediationPlan: when the INSERT fails, or when its reply is lost,  *)
(* the program goes on with id 0.                                          *)
SaveRow(p, status) ==
    /\ age' = [age EXCEPT ![p] = 0]
    /\ \/ /\ HasDB
          /\ row' = [row EXCEPT ![p] = status]
          /\ tracked' = tracked \cup {p}
       \/ /\ HasDB /\ "commit" \in Faults
          /\ row' = [row EXCEPT ![p] = status]
          /\ UNCHANGED tracked
       \/ /\ ~HasDB \/ "db" \in Faults
          /\ UNCHANGED <<row, tracked>>

SavePlan(w) ==
    /\ pc[w] = "save"
    /\ \E p \in batch[w] :
         /\ batch' = [batch EXCEPT ![w] = @ \ {p}]
         /\ SaveRow(p, IF mode[p] = "click-to-fix" THEN "pending_approval" ELSE "generated")
         /\ CASE mode[p] = "click-to-fix" -> Goto(w, "store") /\ cur' = [cur EXCEPT ![w] = p]
              [] mode[p] = "auto-fix"     -> Goto(w, "verify") /\ cur' = [cur EXCEPT ![w] = p]
              [] mode[p] = "dry-run"      -> UNCHANGED <<pc, cur>>
    /\ UNCHANGED <<planVars, fixVars, vcsVars, todo, ctxLive, verdict>>

BatchDone(w) ==
    /\ pc[w] = "save"
    /\ batch[w] = {}
    /\ Goto(w, "idle")
    /\ UNCHANGED <<planVars, rowVars, fixVars, vcsVars, cur, todo, batch, ctxLive, verdict>>

(* Mutant: the approval is asked for before the fix is stored.             *)
AnnouncedFirst(w) ==
    /\ pc[w] = "store"
    /\ fix' = [fix EXCEPT ![cur[w]] = "pending"]
    /\ fixAge' = [fixAge EXCEPT ![cur[w]] = 0]
    /\ Goto(w, "announce")
    /\ UNCHANGED <<planVars, rowVars, vcsVars, cur, todo, batch, ctxLive, verdict>>

(* SavePendingFix, or the assignment to the map.  The callback id is only  *)
(* known to people once SendRemediationApproval has run.                   *)
StoreFix(w) ==
    LET p == cur[w] IN
    /\ pc[w] = "store"
    /\ \/ /\ fix' = [fix EXCEPT ![p] = "unannounced"]
          /\ Goto(w, "announce")
       \/ /\ HasDB /\ "commit" \in Faults
          /\ fix' = [fix EXCEPT ![p] = "unannounced"]
          /\ Goto(w, "stop")
       \/ /\ HasDB /\ "db" \in Faults
          /\ UNCHANGED fix
          /\ Goto(w, "stop")
    /\ fixAge' = [fixAge EXCEPT ![p] = 0]
    /\ UNCHANGED <<planVars, rowVars, vcsVars, cur, todo, batch, ctxLive, verdict>>

(* The clean-up may have deleted the entry already.                        *)
Announce(w) ==
    LET p == cur[w] IN
    /\ pc[w] = "announce"
    /\ fix' = [fix EXCEPT ![p] = IF @ = "unannounced" THEN "pending" ELSE @]
    /\ cur' = [cur EXCEPT ![w] = NoPlan]
    /\ Goto(w, "save")
    /\ UNCHANGED <<planVars, rowVars, fixAge, vcsVars, todo, batch, ctxLive, verdict>>

(* validatePROptionsFresh before an automatic pull request.                *)
VerifySource(w) ==
    LET p == cur[w] IN
    /\ pc[w] = "verify"
    /\ \/ SourceUnchanged(p) /\ Goto(w, "limit")
       \/ /\ ~SourceUnchanged(p) \/ (target[p] \notin CreatesFile /\ "vcs" \in Faults)
          /\ Goto(w, "skip")
    /\ UNCHANGED <<planVars, rowVars, fixVars, vcsVars, cur, todo, batch, ctxLive, verdict>>

(* allowAutoFixPR; module AutoFixLimiter models how it decides.            *)
CheckLimit(w) ==
    /\ pc[w] = "limit"
    /\ Goto(w, "create") \/ Goto(w, "stop")
    /\ UNCHANGED <<planVars, rowVars, fixVars, vcsVars, cur, todo, batch, ctxLive, verdict>>

CreatePR(w) ==
    LET p == cur[w] IN
    /\ pc[w] = "create"
    /\ \/ pr' = [pr EXCEPT ![p] = "open"] /\ Goto(w, "record")
       \/ "reply" \in Faults /\ pr' = [pr EXCEPT ![p] = "open"] /\ Goto(w, "skip")
       \/ "vcs" \in Faults /\ UNCHANGED pr /\ Goto(w, "skip")
    /\ UNCHANGED <<planVars, rowVars, fixVars, fresh, reverts, cur, todo, batch, ctxLive, verdict>>

RecordPR(w) ==
    /\ pc[w] = "record"
    /\ MarkOrLose(cur[w], "pr_opened")
    /\ cur' = [cur EXCEPT ![w] = NoPlan]
    /\ Goto(w, "save")
    /\ UNCHANGED <<planVars, fixVars, vcsVars, todo, batch, ctxLive, verdict>>

(* A stale source or a failed creation: on to the next plan.               *)
SkipPlan(w) ==
    /\ pc[w] = "skip"
    /\ MarkOrLose(cur[w], "pr_failed")
    /\ cur' = [cur EXCEPT ![w] = NoPlan]
    /\ Goto(w, "save")
    /\ UNCHANGED <<planVars, fixVars, vcsVars, todo, batch, ctxLive, verdict>>

(* A fix that was not stored, or the rate limit: the batch is abandoned.   *)
StopBatch(w) ==
    /\ pc[w] = "stop"
    /\ MarkOrLose(cur[w], "pr_failed")
    /\ Release(batch[w])
    /\ batch' = [batch EXCEPT ![w] = {}]
    /\ cur' = [cur EXCEPT ![w] = NoPlan]
    /\ Goto(w, "idle")
    /\ UNCHANGED <<fixVars, pr, reverts, todo, ctxLive, verdict>>

-----------------------------------------------------------------------------
(* SubmitPendingFix, in a goroutine the HTTP handler starts with the       *)
(* context of its request and does not wait for.                           *)

(* Callback ids reach people only when the fix is announced; a button can  *)
(* be pressed again long after.                                            *)
Click(a) ==
    /\ pc[a] = "idle"
    /\ \E p \in Plan : /\ fix[p] \in {"pending", "taken", "expired"}
                       /\ cur' = [cur EXCEPT ![a] = p]
    /\ ctxLive' = ctxLive \cup {a}
    /\ Goto(a, "take")
    /\ UNCHANGED <<planVars, rowVars, fixVars, vcsVars, todo, batch, verdict>>

(* The handler returns, and its request's context is cancelled.            *)
HandlerReturns(a) ==
    /\ a \in ctxLive
    /\ ctxLive' = ctxLive \ {a}
    /\ UNCHANGED <<planVars, rowVars, fixVars, vcsVars, pc, cur, todo, batch, verdict>>

GiveUp(a) ==
    /\ Goto(a, "idle")
    /\ cur' = [cur EXCEPT ![a] = NoPlan]
    /\ ctxLive' = ctxLive \ {a}

Expired(p) == ApprovalTTL > 0 /\ fixAge[p] > ApprovalTTL

(* Mutant: the fix is read but not deleted.                                *)
TakeKeepsFix(a) ==
    /\ pc[a] = "take"
    /\ \/ /\ fix[cur[a]] = "pending"
          /\ HasDB => a \in ctxLive
          /\ Goto(a, IF Expired(cur[a]) THEN "skip" ELSE "verify")
          /\ UNCHANGED <<cur, ctxLive>>
       \/ fix[cur[a]] # "pending" /\ GiveUp(a)
    /\ UNCHANGED <<planVars, rowVars, fixVars, vcsVars, todo, batch, verdict>>

(* TakePendingFix (module PendingFixStore shows that it hands a fix out at *)
(* most once), then the check of its age.                                  *)
Take(a) ==
    LET p == cur[a] IN
    /\ pc[a] = "take"
    /\ \/ /\ fix[p] = "pending"
          /\ HasDB => a \in ctxLive
          /\ fix' = [fix EXCEPT ![p] = "taken"]
          /\ Goto(a, IF Expired(p) THEN "skip" ELSE "verify")
          /\ UNCHANGED <<cur, ctxLive>>
       \/ /\ fix[p] = "pending" /\ HasDB /\ a \in ctxLive /\ "commit" \in Faults
          /\ fix' = [fix EXCEPT ![p] = "taken"]
          /\ GiveUp(a)
       \/ /\ fix[p] # "pending" \/ (HasDB /\ (a \notin ctxLive \/ "db" \in Faults))
          /\ UNCHANGED fix
          /\ GiveUp(a)
    /\ UNCHANGED <<planVars, rowVars, fixAge, vcsVars, todo, batch, verdict>>

Cancelled(a) == HonoursCtx /\ a \notin ctxLive

(* validatePendingFixFresh.                                                *)
VerifyPending(a) ==
    LET p == cur[a]
        unread == target[p] \notin CreatesFile /\ (Cancelled(a) \/ "vcs" \in Faults)
    IN
    /\ pc[a] = "verify"
    /\ \/ /\ SourceUnchanged(p)
          /\ target[p] \notin CreatesFile => ~Cancelled(a)
          /\ Goto(a, "create")
       \/ /\ ~SourceUnchanged(p) \/ unread
          /\ Goto(a, "skip")
    /\ UNCHANGED <<planVars, rowVars, fixVars, vcsVars, cur, todo, batch, ctxLive, verdict>>

(* Mutant: the error of CreatePullRequest is ignored.                      *)
CreateUnchecked(a) ==
    /\ pc[a] = "create"
    /\ pr' = [pr EXCEPT ![cur[a]] = "open"] \/ UNCHANGED pr
    /\ Goto(a, "record")
    /\ UNCHANGED <<planVars, rowVars, fixVars, fresh, reverts, cur, todo, batch, ctxLive, verdict>>

(* A context cancelled during the call makes it fail, whether or not the   *)
(* host has created the pull request by then.                              *)
CreateApprovedPR(a) ==
    LET p == cur[a] IN
    /\ pc[a] = "create"
    /\ \/ /\ ~Cancelled(a)
          /\ pr' = [pr EXCEPT ![p] = "open"]
          /\ Goto(a, "record")
          /\ UNCHANGED ctxLive
       \/ /\ "reply" \in Faults \/ (HonoursCtx /\ a \in ctxLive)
          /\ ~Cancelled(a)
          /\ pr' = [pr EXCEPT ![p] = "open"]
          /\ Goto(a, "skip")
          /\ ctxLive' = IF HonoursCtx THEN ctxLive \ {a} ELSE ctxLive
       \/ /\ "vcs" \in Faults \/ Cancelled(a)
          /\ Goto(a, "skip")
          /\ UNCHANGED <<pr, ctxLive>>
    /\ UNCHANGED <<planVars, rowVars, fixVars, fresh, reverts, cur, todo, batch, verdict>>

(* Mutant: a fix whose submission failed is stored again.                  *)
FailedFixReturns(a) ==
    /\ pc[a] \in {"record", "skip"}
    /\ LET status == IF pc[a] = "record" THEN "pr_opened" ELSE "pr_failed" IN
       \/ a \in ctxLive /\ MarkOrLose(cur[a], status)
       \/ a \notin ctxLive /\ UNCHANGED rowVars
    /\ fix' = IF pc[a] = "skip" THEN [fix EXCEPT ![cur[a]] = "pending"] ELSE fix
    /\ GiveUp(a)
    /\ UNCHANGED <<planVars, fixAge, vcsVars, todo, batch, verdict>>

(* The outcome is recorded under the same context.                         *)
RecordApproval(a) ==
    /\ pc[a] \in {"record", "skip"}
    /\ LET status == IF pc[a] = "record" THEN "pr_opened" ELSE "pr_failed" IN
       \/ a \in ctxLive /\ MarkOrLose(cur[a], status)
       \/ a \notin ctxLive /\ UNCHANGED rowVars
    /\ GiveUp(a)
    /\ UNCHANGED <<planVars, fixVars, vcsVars, todo, batch, verdict>>

-----------------------------------------------------------------------------
(* The leader's timers.                                                    *)

(* cleanupExpiredPendingFixes: the row of a deleted fix is left as it is.  *)
CleanupExpired ==
    /\ \E p \in Plan : fix[p] \in {"unannounced", "pending"} /\ Expired(p)
    /\ fix' = [p \in Plan |-> IF fix[p] \in {"unannounced", "pending"} /\ Expired(p)
                              THEN "expired" ELSE fix[p]]
    /\ UNCHANGED <<planVars, rowVars, fixAge, vcsVars, actorVars>>

(* Mutant: the list also holds the rows that failed.                       *)
MonitorListsFailed(m) ==
    /\ HasDB
    /\ pc[m] = "idle"
    /\ todo' = [todo EXCEPT ![m] = {p \in Plan : row[p] \in {"pr_opened", "pr_failed"}}]
    /\ batch' = [batch EXCEPT ![m] = {p \in Plan : row[p] = "observing"
                                                   /\ age[p] >= ObservationDelay}]
    /\ Goto(m, "poll")
    /\ UNCHANGED <<planVars, rowVars, fixVars, vcsVars, cur, ctxLive, verdict>>

(* monitorRemediationOutcomes reads its list once and works through it, or *)
(* through none when the query fails; an observing row younger than the    *)
(* delay is passed over.                                                   *)
MonitorStart(m) ==
    /\ HasDB
    /\ pc[m] = "idle"
    /\ \/ /\ todo' = [todo EXCEPT ![m] = {p \in Plan : row[p] = "pr_opened"}]
          /\ batch' = [batch EXCEPT ![m] = {p \in Plan : row[p] = "observing"
                                                         /\ age[p] >= ObservationDelay}]
       \/ /\ "db" \in Faults
          /\ todo' = [todo EXCEPT ![m] = {}]
          /\ batch' = [batch EXCEPT ![m] = {}]
    /\ Goto(m, "poll")
    /\ UNCHANGED <<planVars, rowVars, fixVars, vcsVars, cur, ctxLive, verdict>>

Settle(m, p, status, label) ==
    /\ cur' = [cur EXCEPT ![m] = p]
    /\ verdict' = [verdict EXCEPT ![m] = status]
    /\ Goto(m, label)

(* Mutants: a merge is taken for success; a closed pull request for an     *)
(* open one.                                                               *)
PollMergedSucceeds(m) ==
    /\ pc[m] = "poll"
    /\ \E p \in todo[m] :
         /\ todo' = [todo EXCEPT ![m] = @ \ {p}]
         /\ IF pr[p] = "merged" THEN Settle(m, p, "succeeded", "settle")
                                ELSE UNCHANGED <<pc, cur, verdict>>
    /\ UNCHANGED <<planVars, rowVars, fixVars, vcsVars, batch, ctxLive>>
PollClosedOpen(m) ==
    /\ pc[m] = "poll"
    /\ \E p \in todo[m] :
         /\ todo' = [todo EXCEPT ![m] = @ \ {p}]
         /\ IF pr[p] = "merged" THEN Settle(m, p, "observing", "settle")
                                ELSE UNCHANGED <<pc, cur, verdict>>
    /\ UNCHANGED <<planVars, rowVars, fixVars, vcsVars, batch, ctxLive>>

(* pollRemediationPR.                                                      *)
PollPR(m) ==
    /\ pc[m] = "poll"
    /\ \E p \in todo[m] :
         /\ todo' = [todo EXCEPT ![m] = @ \ {p}]
         /\ \/ pr[p] = "merged" /\ Settle(m, p, "observing", "settle")
            \/ pr[p] = "closed" /\ Settle(m, p, "pr_failed", "settle")
            \/ /\ pr[p] \notin {"merged", "closed"} \/ "vcs" \in Faults
               /\ UNCHANGED <<pc, cur, verdict>>
    /\ UNCHANGED <<planVars, rowVars, fixVars, vcsVars, batch, ctxLive>>

(* gitOpsReadyForObservation and workloadRegressionReason: the cluster     *)
(* reports a failure, or it is not synced yet or healthy, which changes    *)
(* nothing.                                                                *)
Observe(m) ==
    /\ pc[m] = "poll"
    /\ \E p \in batch[m] :
         /\ batch' = [batch EXCEPT ![m] = @ \ {p}]
         /\ \/ Settle(m, p, "production_failed", "settle")
            \/ UNCHANGED <<pc, cur, verdict>>
    /\ UNCHANGED <<planVars, rowVars, fixVars, vcsVars, todo, ctxLive>>

SettlePR(m) ==
    /\ pc[m] = "settle"
    /\ MarkOrLose(cur[m], verdict[m])
    /\ cur' = [cur EXCEPT ![m] = NoPlan]
    /\ Goto(m, "poll")
    /\ UNCHANGED <<planVars, fixVars, vcsVars, todo, batch, ctxLive, verdict>>

(* Mutant: a row whose revert is open is reverted again.                   *)
RevertsAgain(m) ==
    /\ pc[m] = "poll"
    /\ todo[m] = {} /\ batch[m] = {}
    /\ todo' = [todo EXCEPT ![m] = {p \in Plan : row[p] \in {"production_failed", "revert_opened"}}]
    /\ Goto(m, "revert")
    /\ UNCHANGED <<planVars, rowVars, fixVars, vcsVars, cur, batch, ctxLive, verdict>>

(* RemediationsNeedingRevert, once the list is worked through.             *)
MonitorReverts(m) ==
    /\ pc[m] = "poll"
    /\ todo[m] = {} /\ batch[m] = {}
    /\ \/ todo' = [todo EXCEPT ![m] = {p \in Plan : row[p] = "production_failed"}]
       \/ "db" \in Faults /\ UNCHANGED todo
    /\ Goto(m, "revert")
    /\ UNCHANGED <<planVars, rowVars, fixVars, vcsVars, cur, batch, ctxLive, verdict>>

CountRevert(p) ==
    reverts' = [reverts EXCEPT ![p] = IF @ < MaxReverts THEN @ + 1 ELSE @]

(* Mutant: a revert that cannot be opened is left for the next cycle.      *)
RevertFailureDropped(m) ==
    /\ pc[m] = "revert"
    /\ \E p \in todo[m] :
         /\ todo' = [todo EXCEPT ![m] = @ \ {p}]
         /\ \/ CountRevert(p) /\ Settle(m, p, "revert_opened", "settle_revert")
            \/ UNCHANGED <<reverts, pc, cur, verdict>>
    /\ UNCHANGED <<planVars, rowVars, fixVars, fresh, pr, batch, ctxLive>>

(* openRevertPR: neither the row nor the host is asked whether a revert is *)
(* open already.  It fails at the host, or because the row did not record  *)
(* what buildRevertFileChanges needs to restore.                           *)
OpenRevert(m) ==
    /\ pc[m] = "revert"
    /\ \E p \in todo[m] :
         /\ todo' = [todo EXCEPT ![m] = @ \ {p}]
         /\ \/ /\ CountRevert(p)
               /\ Settle(m, p, "revert_opened", "settle_revert")
            \/ /\ "reply" \in Faults
               /\ CountRevert(p)
               /\ Settle(m, p, "revert_failed", "settle_revert")
            \/ /\ UNCHANGED reverts
               /\ Settle(m, p, "revert_failed", "settle_revert")
    /\ UNCHANGED <<planVars, rowVars, fixVars, fresh, pr, batch, ctxLive>>

SettleRevert(m) ==
    /\ pc[m] = "settle_revert"
    /\ MarkOrLose(cur[m], verdict[m])
    /\ cur' = [cur EXCEPT ![m] = NoPlan]
    /\ Goto(m, "revert")
    /\ UNCHANGED <<planVars, fixVars, vcsVars, todo, batch, ctxLive, verdict>>

MonitorEnd(m) ==
    /\ pc[m] = "revert"
    /\ todo[m] = {}
    /\ Goto(m, "idle")
    /\ UNCHANGED <<planVars, rowVars, fixVars, vcsVars, cur, todo, batch, ctxLive, verdict>>

-----------------------------------------------------------------------------
(* People, time and crashes.                                               *)

(* Merging one plan's change rewrites the file under the others.           *)
Merge(p) ==
    /\ pr[p] = "open"
    /\ pr' = [pr EXCEPT ![p] = "merged"]
    /\ fresh' = fresh \ {q \in Plan : target[q] = target[p]}
    /\ UNCHANGED <<planVars, rowVars, fixVars, reverts, actorVars>>

Close(p) ==
    /\ pr[p] = "open"
    /\ pr' = [pr EXCEPT ![p] = "closed"]
    /\ UNCHANGED <<planVars, rowVars, fixVars, fresh, reverts, actorVars>>

EditSource(t) ==
    /\ \E p \in fresh : target[p] = t
    /\ fresh' = fresh \ {p \in Plan : target[p] = t}
    /\ UNCHANGED <<planVars, rowVars, fixVars, pr, reverts, actorVars>>

Older(n) == IF n < AgeCap THEN n + 1 ELSE n

(* Ages are followed while a query can still read them.                    *)
Tick ==
    /\ age' = [p \in Plan |-> IF row[p] \in {"absent", "pending_approval", "pr_opened"}
                              THEN age[p] ELSE Older(age[p])]
    /\ fixAge' = [p \in Plan |-> IF fix[p] \in {"unannounced", "pending"}
                                 THEN Older(fixAge[p]) ELSE fixAge[p]]
    /\ UNCHANGED <<planVars, row, tracked, fix, vcsVars, actorVars>>

Stopped(S) ==
    /\ pc' = [a \in Actor |-> IF a \in S THEN "idle" ELSE pc[a]]
    /\ cur' = [a \in Actor |-> IF a \in S THEN NoPlan ELSE cur[a]]
    /\ todo' = [a \in Actor |-> IF a \in S THEN {} ELSE todo[a]]
    /\ batch' = [a \in Actor |-> IF a \in S THEN {} ELSE batch[a]]
    /\ ctxLive' = ctxLive \ S

(* The leader dies.  Without a database there is only one replica, and the *)
(* map of pending fixes dies with it.                                      *)
CrashLeader ==
    /\ "crash" \in Faults
    /\ Stopped(IF HasDB THEN Worker \cup Monitor ELSE Actor)
    /\ Release(UNION {todo[w] \cup batch[w] : w \in Worker})
    /\ fix' = IF HasDB THEN fix
              ELSE [p \in Plan |-> IF fix[p] \in {"unannounced", "pending"}
                                   THEN "expired" ELSE fix[p]]
    /\ UNCHANGED <<rowVars, fixAge, pr, reverts, verdict>>

(* The replica that serves an approval dies.                               *)
CrashApprover(a) ==
    /\ "crash" \in Faults /\ HasDB
    /\ pc[a] # "idle"
    /\ Stopped({a})
    /\ UNCHANGED <<planVars, rowVars, fixVars, vcsVars, verdict>>

-----------------------------------------------------------------------------
WorkerStep(w) ==
    \/ FilterByHistory(w) \/ FilterByProvider(w) \/ NothingLeft(w) \/ ChooseMode(w)
    \/ SavePlan(w) \/ BatchDone(w) \/ StoreFix(w) \/ Announce(w)
    \/ VerifySource(w) \/ CheckLimit(w) \/ CreatePR(w) \/ RecordPR(w)
    \/ SkipPlan(w) \/ StopBatch(w)

ApproverStep(a) ==
    Take(a) \/ VerifyPending(a) \/ CreateApprovedPR(a) \/ RecordApproval(a)

MonitorStep(m) ==
    \/ MonitorStart(m) \/ PollPR(m) \/ Observe(m) \/ SettlePR(m)
    \/ MonitorReverts(m) \/ OpenRevert(m) \/ SettleRevert(m) \/ MonitorEnd(m)

Next ==
    \/ \E w \in Worker : Generate(w) \/ WorkerStep(w)
    \/ \E a \in Approver : Click(a) \/ HandlerReturns(a) \/ ApproverStep(a) \/ CrashApprover(a)
    \/ \E m \in Monitor : MonitorStep(m)
    \/ CleanupExpired
    \/ \E p \in Plan : Merge(p) \/ Close(p)
    \/ \E t \in Target : EditSource(t)
    \/ Tick
    \/ CrashLeader

Spec == Init /\ [][Next]_vars

-----------------------------------------------------------------------------
(* Safety.                                                                 *)

(* No row claims more than what happened at the VCS host, whatever calls   *)
(* fail, whoever crashes and however many monitors run: pr_opened means    *)
(* that the pull request exists, observing and what follows it that it was *)
(* merged, revert_opened that a revert pull request was opened.            *)
RecordsSound ==
    \A p \in Plan :
        /\ row[p] = "pr_opened" => pr[p] # "none"
        /\ row[p] \in MergedStatus => pr[p] = "merged"
        /\ row[p] = "revert_opened" /\ MaxReverts > 0 => reverts[p] > 0

(* A pull request exists only if a person took its pending fix, or if the  *)
(* mode is auto-fix and the batch was confident and of low risk: no dry    *)
(* run, expired fix or doubtful patch ever becomes one.                    *)
Mandated ==
    \A p \in Plan : pr[p] # "none" =>
        \/ Mode # "dry-run" /\ fix[p] = "taken"
        \/ Mode = "auto-fix" /\ p \in confident /\ p \notin risky

(* In auto-fix mode a batch of low confidence opens nothing, not even      *)
(* after a click.                                                          *)
DoubtNeverOpens ==
    \A p \in Plan : Mode = "auto-fix" /\ mode[p] # "undecided" /\ p \notin confident
                    => pr[p] = "none" /\ fix[p] = "none"

(* At most one goroutine submits a plan, and only while it has no pull     *)
(* request: approvals pressed twice or on two replicas open one.           *)
OneSubmission ==
    \A a \in Submitter : pc[a] \in {"verify", "limit", "create"} =>
        /\ pr[cur[a]] = "none"
        /\ \A b \in Submitter \ {a} :
              cur[b] = cur[a] => pc[b] = "take"

(* Where the right to open the pull request of a plan is: with a submitter *)
(* that may still open it, with a person who is asked, or lost unless the  *)
(* plan is a draft, or its fix is being stored or announced.               *)
MayOpen(p) == \E a \in Submitter : cur[a] = p /\ pc[a] \in {"verify", "limit", "create"}
YetToAsk(p) ==
    \/ target[p] = NoTarget \/ fix[p] = "unannounced"
    \/ \E w \in Worker : \/ p \in todo[w] \cup batch[w]
                         \/ cur[w] = p /\ pc[w] = "store"
Right(p) ==
    IF MayOpen(p) THEN "held"
    ELSE IF fix[p] = "pending" THEN "asked"
    ELSE IF YetToAsk(p) THEN "none" ELSE "gone"

(* Every pull request is opened with a right that a person gave, or that   *)
(* auto-fix mode waives, and that is used up by it or lost: no crash, lost *)
(* reply, repeated click or expiry brings it back, and a pull request that *)
(* was decided stays so.                                                   *)
MD == INSTANCE Mandate WITH right <- [p \in Plan |-> Right(p)]
ImplementsMandate == MD!MandateSpec

(* The status of a row only moves forward, though every UPDATE ignores the *)
(* status it overwrites: drafts become pr_opened or pr_failed, pr_failed is *)
(* final, and once the merge is recorded the row stays among the statuses  *)
(* that follow a merge.                                                    *)
Forward(old, new) ==
    \/ old \in DraftStatus /\ new # "absent" /\ new \notin MergedStatus
    \/ old = "pr_opened" /\ new \in {"pr_failed", "observing"}
    \/ old \in MergedStatus /\ new \in MergedStatus
LifecycleForward ==
    [][\A p \in Plan : row'[p] # row[p] => Forward(row[p], row'[p])]_row

(* A pending fix whose source file was changed before the click never      *)
(* becomes a pull request.                                                 *)
StalePending(p) == /\ fix[p] \in {"unannounced", "pending"}
                   /\ p \notin fresh /\ target[p] \notin CreatesFile
StaleApprovalRefused ==
    \A p \in Plan : [](StalePending(p) => [](pr[p] = "none"))

(* Opening a pull request for a target never adds to an open one.  True of *)
(* one goroutine that runs handleRemediation, as long as rows are saved.   *)
NoDuplicatePR ==
    [][\A p \in Plan : pr[p] = "none" /\ pr'[p] = "open" => ~OpenPRExists(p)]_pr

(* A revert answers a recorded regression, and once the row says so there  *)
(* is no other, whatever calls fail: true of one monitor, although neither *)
(* its list nor the host is looked at again.                               *)
RevertedOnce ==
    [][\A p \in Plan : reverts'[p] # reverts[p] => row[p] = "production_failed"]_reverts

(* What blocks a target for good is an approval that can still be given,   *)
(* a goroutine at work on it or an open pull request: the reason that the  *)
(* log of handleRemediation gives for skipping a remediation.              *)
BlockedForAReason ==
    \A p \in Plan : row[p] = "pending_approval" =>
        \/ fix[p] \in {"unannounced", "pending"}
        \/ \E a \in Submitter : cur[a] = p
        \/ pr[p] = "open"

(* An approval that was taken in time opens the pull request, when nothing *)
(* fails and the file did not change: what the [Execute Fix] button is     *)
(* documented to do.                                                       *)
ApprovalExecuted ==
    \A p \in fresh : fix[p] = "taken" /\ (\A a \in Approver : cur[a] # p)
                     => pr[p] # "none"

-----------------------------------------------------------------------------
(* Liveness.  Goroutines run and timers fire; people need not do anything. *)
(* The monitor repeats a query, a poll or an update that failed in every   *)
(* cycle, and a call that is repeated for ever succeeds at some time.      *)

ListRead(m)    == MonitorStart(m) /\ todo'[m] = {p \in Plan : row[p] = "pr_opened"}
RevertsRead(m) == MonitorReverts(m) /\ todo'[m] = {p \in Plan : row[p] = "production_failed"}
PollSettles(m)   == PollPR(m) /\ pc'[m] = "settle"
UpdateLands(m)   == (SettlePR(m) \/ SettleRevert(m)) /\ row' # row

Fairness ==
    /\ \A w \in Worker : WF_vars(WorkerStep(w))
    /\ \A a \in Approver : WF_vars(ApproverStep(a)) /\ WF_vars(HandlerReturns(a))
    /\ \A m \in Monitor : /\ WF_vars(MonitorStep(m))
                          /\ SF_vars(ListRead(m)) /\ SF_vars(RevertsRead(m))
                          /\ SF_vars(PollSettles(m))
                          /\ SF_vars(UpdateLands(m))
    /\ WF_vars(CleanupExpired)
    /\ WF_vars(Tick)

FairSpec == Spec /\ Fairness

(* The fate of a pull request reaches its row: merged ones are observed,   *)
(* closed ones fail.                                                       *)
PRFateRecorded ==
    \A p \in Plan :
        /\ row[p] = "pr_opened" /\ pr[p] = "merged" ~> row[p] \in MergedStatus
        /\ row[p] = "pr_opened" /\ pr[p] = "closed" ~> row[p] = "pr_failed"

(* A recorded regression is answered by a revert pull request, or by a row *)
(* that says it could not be opened.                                       *)
RegressionAnswered ==
    \A p \in Plan : row[p] = "production_failed" ~>
        row[p] \in {"revert_opened", "revert_failed"}
=============================================================================
