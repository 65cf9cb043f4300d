# Fixora in TLA+

Fixora watches a Kubernetes cluster, diagnoses failing workloads with an AI
model and remediates them through pull requests on the GitOps repository. These
modules model the whole way from a failing pod to a pull request that is merged,
watched and, if production gets worse, reverted:

* how work arrives at the one worker of the leading replica (`Intake`);
* the records in Postgres that keep goroutines and replicas apart (`Records`);
* what may be proposed at all (`Proposal`, with `Diagnosis`, `Sources`, `PatchGate`);
* how a proposal becomes a pull request, at most once and only with a mandate,
  and what becomes of it (`Remediation`).

TLC checks them on small instances. TLAPS proves every invariant and action
property of the runs that pass for every value of the constants; what only TLC
checks are the four liveness properties.

All source paths below are relative to `src/`; `controller/` stands for
`pkg/controller/`.

## 1. The system

### Components

| Component | Source | State it keeps | Operations that change state | Module |
|---|---|---|---|---|
| Work queue, scanners, leader election | `controller/controller.go` | the queue, the worker's item, the lease, `isLeader` | enqueue, get, retry, scan, acquire, lose, exit | `Intake` |
| Alert deduplication | `controller/history.go` | `processed_alerts` or a map | look up, mark | `Intake` |
| Investigation lock | `controller/history.go` | `investigation_locks` or a map | check-and-lock | `InvestigationLock` |
| Pending fix store | `controller/history.go` | `pending_fixes` | take, clean up | `PendingFixStore` |
| Auto-fix rate limiter | `controller/controller.go`, `history.go` | `autofix_events` or a list | allow | `AutoFixLimiter` |
| Leak scan | `controller/controller.go`, `history.go` | `predictions` | flag, report, record | `LeakScan` |
| Diagnosis | `controller/diagnosis.go`, `controller.go` | none | pure | `Diagnosis` |
| GitOps source resolution | `gitops/resolver.go`, `controller/gitops_remediation.go` | none | pure | `Sources` |
| Guardrails, normalization, validation, risk | `controller/policy_guardrails.go`, `patch_normalization.go`, `gitops_remediation.go`, `pr_risk.go`, `validation/*.go` | none | pure | `PatchGate` |
| Proposal | `controller/controller.go` (`handleRemediation` to its plans), `pr_workflow.go` | what was discovered and admitted so far | list, generate, admit, validate, propose | `Proposal` |
| Remediation lifecycle | `controller/controller.go` (from the plans on, and `SubmitPendingFix`), `closed_loop.go` | `remediation_outcomes`, fixes, pull requests | filter, save, store, announce, verify, limit, create, record, approve, expire | `Remediation` |
| Outcome monitor | `controller/remediation_monitor.go`, `closed_loop.go` | status and `updated_at` of the rows | poll, observe, mark, open revert | `Remediation` |
| Approval endpoints, webhook | `server/server.go` | the context of each request | start a submission, return; enqueue an alert | `Remediation`, `Intake` |
| VCS providers | `vcs/*.go` | the host's branches and pull requests | list, read, create, exists, status | `Proposal`, `Remediation` |
| Event stream, dependency graph; secret scrubbing; AI clients; metrics; FinOps; notifications; Alertmanager client, telemetry | remaining packages | nothing a protocol depends on | | not modelled |

### How they interact

* The **informer** (every change, every 30 s), the **Alertmanager scraper** and the
  **performance scan** (every minute) run on the leader and put work items into
  its **queue**; the **webhook** does so on any replica. One **worker** goroutine
  takes them out, reads the pod, takes the investigation lock for the *workload*,
  diagnoses and calls `handleRemediation`. The **leak scanner** is a goroutine of
  its own that takes the lock for the *pod name* and calls the same function.
* `handleRemediation` asks the **cluster** for the GitOps objects that manage the
  pod, the **VCS host** for the files they name and the **AI** for patches; it
  judges these, makes plans of them and talks to the **history** (Postgres, or
  maps in memory when no database is configured) and to the host, one call
  after the other, with no transaction across them.
* An **approval** arrives over HTTP at *any* replica. The handler starts
  `SubmitPendingFix` in a goroutine, hands it the context of the request and
  returns, which cancels that context.
* Two timers of the leader run beside all this: the clean-up of expired fixes
  (every minute) and the outcome monitor (every two minutes).
* While leadership changes hands the old leader and the new one can work at the
  same time; only the rows of the database keep them apart.

### What is hard about it

Check-then-act across two stores; a context that dies between two steps; a
reply that is lost after its effect; an `INSERT` whose id is lost, after which
every later update is silently dropped; a crash between "created" and
"recorded", or between "locked" and "diagnosed"; an item that is queued, delayed,
processed and marked in four places, one of which forgets it; a button that is
pressed twice or after the expiry; a reason that is stale by the time the pod is
diagnosed; a read that failed and is taken for "not there"; a file that is edited
between its listing and its patch; an answer of
the AI that may be anything; a classifier, a rank or a rule that depends on an
order; stale lists; several replicas and their clocks on one row; a count that
is not locked. `PROJECT.json` lists each hazard at its line.

### What makes each component correct

* *Intake*: a workload is diagnosed by one replica at a time (`OneAtATime`), and
  every failure that lasts is diagnosed again and again (`EveryFailureAnswered`).
* *Lock*: grants are a window apart (`ImplementsLockWindow`) and every call
  returns (`EveryCallAnswered`).
* *Store*: a fix is handed out at most once (`ImplementsHandOut`).
* *Limiter*: an overrun is bounded by the other goroutines (`OverrunBounded`).
* *Leak scan*: one leak is not reported twice in its cooldown (`ReportsApart`).
* *Diagnosis*: the class found is the fault the pod was queued for, however old
  the reason is by then (`CauseKept`); unless the pod has another fault by then,
  an event of another is kept, the image is for another CPU, or a name or message
  that is quoted contains a word of a classifier that is asked earlier.
* *Proposal*: only files that were shown (`Contained`), where GitOps keeps the
  workload, or where its annotations say if nothing manages it or a read of the
  resolver failed (`KeptByGitOps`), with documents and container images that policy
  allows (`Vetted`), and in a bare Pod's manifest no more than the image and its pull
  policy when a manifest answers an image fault (`PodImageOnly`).
* *Lifecycle*: every pull request uses up a right that was given once
  (`ImplementsMandate`), and has a mandate (`Mandated`, `DoubtNeverOpens`),
  a plan is submitted once (`OneSubmission`), a target has one open pull request
  (`NoDuplicatePR`), a stale approval is refused (`StaleApprovalRefused`).
* *Rows*: a row never claims more than happened (`RecordsSound`) and moves
  forward only (`LifecycleForward`).
* *Monitor*: the fate of a pull request is recorded (`PRFateRecorded`), and a
  regression is answered (`RegressionAnswered`), once (`RevertedOnce`).

## 2. The modules

| Module | What it is |
|---|---|
| `Intake`, `Intake_proofs` | queue, producers, worker, lease, crashes; one step for the lock |
| `Storage` | the choice of storage that the record modules share |
| `LockWindow`, `InvestigationLock` | what the lock promises, how the transaction does it |
| `HandOut`, `PendingFixStore` | the same for the store of pending fixes |
| `AutoFixLimiter`, `AutoFixLimiter_proofs` | the rate limiter |
| `LeakScan` | one leak with its scanners |
| `Records`, `Records_proofs` | the four records side by side; the two refinements and the leak scan, proved |
| `Diagnosis` | the reason a pod is queued for and the class it is given |
| `Sources`, `Sources_proofs` | the GitOps sources of a pod, their types and order |
| `PatchGate` | what a patch becomes and what is refused |
| `Proposal`, `Proposal_proofs` | extends `Diagnosis` and `PatchGate` (with `Sources`) to the way from a diagnosis to its plans |
| `Mandate` | what the lifecycle promises of pull requests: each takes a right, given once |
| `Remediation`, `RemediationInv`, `Remediation_proofs` | from plans to outcomes; the inductive invariant; the proofs |
| `Submission_proofs` | what follows from it about several plans and steps: duplicates, stale approvals, reverts; the refinement of `Mandate` |
| `LeastElements` | least numbers and smallest sets, for the proofs about recursive functions |
| `MC...` | instances for TLC |

**How they compose.** `Proposal` is built from three modules of operators and
hands on plans with a mode. `Remediation` begins there: its `Generate` and
`ChooseMode` choose any of the batches and modes that `Proposal` can end with.
`Remediation` and `Intake` use the records as single steps, which the records'
own refinements justify: `Take` receives the fix atomically because
`PendingFixStore` implements `HandOut`; `Granted` and `Refused` of `Intake` are
`CheckAndLockInvestigation` because `InvestigationLock` implements `LockWindow`;
`CheckLimit` may answer either way, which includes every answer of
`AutoFixLimiter`. The lock does not appear in `Remediation`, because the worker
and the leak scanner lock different keys: `Worker` with two elements is those
two goroutines.

In each module a definition that begins with *Mutant* in its comment is a
plausible bug of the definition after it. Mutants are in no next-state relation;
they serve to show that each property can tell the code from a broken variant.

### Intake: state and actions

`queue`, `delayed`, `worker` and `again` are, per replica, the rate-limited work
queue of client-go: what waits, what is backed off, what is processed, and
whether that was added again meanwhile. `lease` is whose the lease is, `leading`
who believes to have it. `lock` and `mark` count down what is left of a window,
`left` what is left of the worker's two minutes. Without a database there is one
replica (`Alone`), and its locks and marks are in memory.

| Code (`controller.go` unless said) | Actions |
|---|---|
| informer callbacks, `enqueuePod` | `enqueuePod`, for any failing pod in scope at any time |
| `scanForAppFailures` | `scanForAppFailures`: locks the pod's key, then enqueues; only with a bare Prometheus client |
| `pullAlertsFromAlertmanager`; `IsAlertRecentlyProcessed`, `MarkAlertProcessed` (`history.go`) | `pullAlert`; a failed look-up finds no mark, a failed mark is ignored |
| `handleAlertmanager` (`server.go`), `DiagnosePodByName` | `handleAlertmanager`, on a replica that may not lead |
| `runWorker`, `processNextItem` | `AddRateLimited` (pod gone or unreadable), `Retry` |
| `processDiagnostic`, `workloadIdentityForPod` | `processDiagnostic`: the lock is granted, or the item is skipped |
| `diagnosePod` | `diagnosePod` |
| `Run`, `runLeaderWork`, lease callbacks | `Acquire`, `Lapse`, `Exit` |
| the cluster, time | `Delete`, `Tick` |

A crash anywhere between the first read of an item and its lock is the crash
before it: nobody sees the difference. That a diagnosis does not outlive its
context of two minutes is assumed: it is the guard of `Tick`, and a call that takes
no context and overruns is outside the model.

### The records

`InvestigationLock` is `CheckAndLockInvestigation` for one key (keys do not
interact). Its transaction is taken apart into `SELECT ... FOR UPDATE`, the check
of the window, `time.Now()`, the `UPDATE` or `INSERT`, and the commit. `holder`
is the transaction that has the row locked or is inserting it, which is what the
others wait for at READ COMMITTED. Each caller has a clock of its own. `granted`
records, for a caller that is told true, the real time at which it read its clock for the
stamp: it is what the refinement to `LockWindow` is about. The times at which two
callers are told can be nearer to each other by as long as a transaction takes.
Time is that of a process in UTC: the `TIMESTAMP` columns carry no zone.

`PendingFixStore` is `TakePendingFix` for one callback id, against itself and
against `CleanupExpiredPendingFixes`.

`AutoFixLimiter` has the in-memory list under its mutex, with the cutoff read
before it, and the transaction of three statements. `allowed` counts who was
told true, by the time of the event. A limit of zero means no limit and is left
out. The transactions' clocks do not differ.

`LeakScan` is `scanForLeaks` for one pod: the growth of each scan is any of
`Rates`, the cooldown is judged as the code does it (less than half as much
again), and a report goes out before it is recorded, or without.

`Records` puts the four side by side. They share the choice of storage and
nothing else, so a behaviour of all is any interleaving of one of each; `focus`
names the record whose steps are taken, which keeps the number of states the
sum of the four and not their product.

### Diagnosis and Proposal: state and actions

A *fault* is what is wrong with a pod, a *face* what the API server shows of it
at the moment (phase, condition, container states), and `said` the events that
are kept. A text is the set of the classifiers' needles it contains: those of the
words Kubernetes writes itself (`Marks`, and `Message` for the message of a waiting
container), and any of `Quotable`, which stands for what it quotes: names of pods,
containers, namespaces and keys, and messages of others (`diagnosis.go` 340-362).
The events and the states quote independently, if they say anything. `Diagnosis`
queues the pod for the reason its face gives then, lets face, events and fault
change while it waits, and diagnoses what the pod is like by then with the eight
classifiers in their order; forensics may override them. What a diagnosis notes of
itself for `CauseKept`: `mixed`, that the pod has another fault by then, an event of
another is kept or the image is for another CPU; `misled`, that a quoted needle is
one by which an earlier classifier takes the pod.

`world` is the cluster and the repositories, `tree` the files of each branch. A
document is its kind, name, namespace and groups of fields: the image, the pull
policy, the resources, and all else. `plain` says that its image line has nothing
but the image on it, as one with a comment has not, which decides between the two
ways in which a Pod's image is rewritten. This is as much as any check tells apart. A
path is a sequence of names; what the code decides by a substring of a name is
decided by `Spelled`, the names that contain it.

Every read of the resolver may fail (`Reads`): the three lists, the ReplicaSet, once
for ArgoCD and again for each kustomization, and the source object of a Flux
object. The code takes each for "not there" and goes on, so that `ResolvePod` falls
back to annotations when nothing is found for whatever reason. `Managed` and `Noted`,
by which `KeptByGitOps` judges, do not depend on what can be read. `world.failed`
keeps that a read failed. A file that cannot be fetched is missing from its listing
(`List` discovers any subset), and an empty listing still replaces the branch and
the source by which the repository is judged.

The image of a container is the field `image`; one that a chart's values or an
`images:` entry sets is the field `setting`, which `manifestImages` does not look at
(`policy_guardrails.go` 179). A container anywhere in a file counts, that of a
document without a kind too.

| Code | Actions and operators |
|---|---|
| the reason in `enqueuePod` | `Enqueue`, `Reason` |
| the cluster | `Report`, `Expire`, `Turn` |
| `classifyPodIssue` and what it calls (`diagnosis.go`) | `Diagnose`, `classifyPodIssue` and the classifiers, `refineDiagnosisFromEvidence` |
| `ResolvePod`, ArgoCD, Flux, annotations, ranks, duplicates (`gitops/resolver.go`) | `Resolve`, `ResolvePod` |
| files of one source (`controller.go` 1136-1222) | `List`, `Discover` |
| the AI's answer | `Generate`: any of `Answer` |
| the allowlist, the re-reading and `applyRawManifestPatch` (1240-1310, `patch_normalization.go`) | `Admit`, `Merge` |
| `filterNoop`, guardrails, rendering, dry run | `Validate`, `enforcePatchGuardrails`, `validateManifestAwarePatchSet`, `ValidateRenderSandbox` |
| `buildManifestAwarePROptions`, branch names, risk, `filterActiveRemediationPlans`, effective mode | `Propose` |
| every early return | `Abandon` |
| other people | `Push` |

### Remediation: state and actions

A *plan* is one remediation of one file. `Target` abstracts what
`remediationBranchPrefix` computes: owner, repository, strategy, workload and
file. `row`, `age` and `tracked` are the plan's row (status, time since
`updated_at`, whether the id reached the program); `fix` and `fixAge` the
pending fix; `pr` the pull request; `fresh` whether the file on the base branch
is still what the patch was made from. `fix` is `unannounced` between
`SavePendingFix` and `SendRemediationApproval`, `pending` until it is taken or
expires. A callback id is fresh for each fix, so the plan stands for it.

| Code | Actions |
|---|---|
| a batch of plans (what `Proposal` ends with) | `Generate` |
| `filterActiveRemediationPlans` (1511-1557) | `FilterByHistory` (map or table), `FilterByProvider` (host), `NothingLeft` |
| effective mode (1384-1388, 1421-1431) | `EffectiveMode`, `ChooseMode` |
| click-to-fix branch (1434-1461) | `SavePlan`, `StoreFix`, `Announce`, `StopBatch`, `BatchDone` |
| dry-run branch (1462-1474) | `SavePlan`, `BatchDone` |
| auto-fix branch (1476-1508) | `SavePlan`, `VerifySource`, `CheckLimit`, `CreatePR`, `RecordPR`, `SkipPlan`, `StopBatch` |
| approval handlers (`server.go` 235-245, 302-313) | `Click`, `HandlerReturns` |
| `SubmitPendingFix` (1590-1651) | `Take`, `VerifyPending`, `CreateApprovedPR`, `RecordApproval` |
| `cleanupExpiredPendingFixes` (1847-1867) | `CleanupExpired` |
| `monitorRemediationOutcomes` (`remediation_monitor.go` 23-65) | `MonitorStart`, `PollPR`, `Observe`, `SettlePR`, `MonitorReverts`, `OpenRevert`, `SettleRevert`, `MonitorEnd` |
| the host, people, time | `Merge`, `Close`, `EditSource`, `Tick` |
| the end of a process | `CrashLeader`, `CrashApprover` |

A step ends wherever another actor can see the difference: at each statement, at
each call to the host, at each change of the map under its mutex. Actions of the
monitor carry the list that was read in the beginning, so that it acts on stale
rows as the code does.

Failures are chosen by `Faults`: a statement fails without effect (`db`) or
takes effect and its reply is lost (`commit`), a call to the host fails without
effect (`vcs`) or with it (`reply`), a process dies (`crash`). A cancelled
context is not a fault: `HandlerReturns` may happen at any time, and from then on
no statement of that approval succeeds, nor, if `HonoursCtx`, any call to the
host.

### Abstractions worth knowing

* A plan that a batch drops leaves no trace, and its identity is used again;
  `Plan` thus bounds how many live remediations there are, not how many ever run.
* Ages are capped (`AgeCap`) where no comparison tells them apart, and time
  passes as fast as it likes, so every timeout can race every step.
* Whether the cluster reports a failure is a choice; so is whether a revert can
  be built from the recorded files. `SourceUnchanged` is about the only kind of
  file that `validatePROptionsFresh` compares, those that are modified.
* An observing row that comes of age while the monitor is at work waits for the
  next cycle. There are fewer rows than the monitor's limit of 50 (and 20 for
  reverts).
* A VCS provider is configured, closed pull requests are not reopened, and
  `CreatePullRequest` is one step, whether or not its several API calls leave a
  branch behind when one of them fails.
* The resolver sorts by rank with `sort.Slice`, which keeps the order of equal
  ranks only for up to twelve elements; `Ranked` always does.
* Once a proposal has ended, the variables that nothing reads any more are reset
  (`End`): that joins states which differ in nothing.
* The worlds are chosen when the resolver first reads them, so the states before
  do not multiply by them.

## 3. What TLC checks

| Run | Instance | Properties | States |
|---|---|---|---|
| `intake` | fair; two replicas; four pods: two of one Deployment, of which one fails and the other is slow and may be deleted, one in an excluded namespace, and one of a StatefulSet that only has an alert; one fault; with and without a database | `IntakeInv`, `OneAtATime`, `EveryFailureAnswered` | 619,092 |
| `records` | fair; three callers of the lock with window 2 and skew 1; four presses and the clean-up; two goroutines at a limit of 1; two leak scanners, five rates, two faults; failing statements; with and without a database | `LockInv`, `ImplementsLockWindow`, `EveryCallAnswered`, `StoreInv`, `ImplementsHandOut`, `LimiterTypeOK`, `OverrunBounded`, `ReportsApart` | 152,998 |
| `proposal` | nine faults, five quoted needles, eleven worlds, any reads failing, single and paired patches, two confidences, two modes, one push | `CauseKept`, `Contained`, `KeptByGitOps`, `Vetted`, `PodImageOnly` | 2,834,878 |
| `sequential` | auto-fix, one worker, two plans, two targets, one of them a created file, an approval, a monitor; vcs, reply, crash | `IInv`, `NoDuplicatePR` | 2,079,565 |
| `memory` | no database, a client that ignores the context, two workers, two plans, two approvals, all faults | `OneSubmission`, `IInv`, `ImplementsMandate` | 104,711 |
| `outcomes` | fair; auto-fix with its downgrades, one plan, two approvals, one monitor, reverts counted to two; db, commit, vcs, reply | `TypeOK`, `RecordsSound`, `OneSubmission`, `Mandated`, `DoubtNeverOpens`, `LifecycleForward`, `PRFateRecorded`, `RegressionAnswered`, `StaleApprovalRefused`, `RevertedOnce`, `ImplementsMandate` | 20,764 |

Six more runs expect a violation (section 4).

**Why the bounds are enough to be interesting.**

* `intake`: two replicas are the old leader and the new one; two pods of one
  Deployment are siblings that compete for its lock; `Window = 2` and `Limit = 1`
  let a lock expire, be held by a dead replica, and outlast a diagnosis by the
  least amount. The pod that has an alert shares its workload with no other, so that
  only the alert can have it diagnosed: the property is about the path of alerts and
  their marks as well. One fault (`MaxFaults`) lapses a lease, kills a process, fails a
  look-up or a mark, or makes an owner unreadable, at any step.
* `records`: the window of the lock, the hour of the limiter and the cooldown of
  the leak scan lie within a time (`MaxTime`, `MaxOpenTime`) that is longer than
  they are, so each is met and missed; `Rates` has values on either side of the
  threshold and of "half as much again".
* `proposal`: the worlds are raw manifests, two directories of one repository, a
  bare Pod, another one with a comment beside its image and an application that
  names no repository, an overlay, a base, charts from ArgoCD and from Flux, two repositories,
  two branches of one repository, and an untrusted domain; several of them have
  annotations that name another repository, which a failed read brings into play.
  `Quotable` has a needle each of five classifiers, so that any may be misled by any.
  The answers have each path in each repository, a bad image in a container, in a
  document without a kind and in a chart's values, and pairs of patches where two
  can interact.
  `MaxPushes` is one, which is what a stale read takes.
* the lifecycle: its hazards involve one plan and two goroutines, or two plans
  of one target. `ActiveHold`, `ObservationDelay` and `ApprovalTTL` are one step of
  a clock that may tick at any point, so each is met and missed by every action.
* `Symmetry` is used in runs of invariants and action properties only, over
  identities no action compares. The proofs take away the bounds for the
  invariants they cover.

**Where a property needs an assumption**, its run makes it visible:

* `CauseKept` excepts what section 1 names. A pod named `external-secrets` that runs
  out of memory is taken for one with a missing Secret.
* `KeptByGitOps` lets annotations place the change of a managed workload after a
  failed read, as the code does; a third place it never allows.
* `Vetted` claims nothing of images outside containers: one in a chart's values or in
  a kustomization's `images:` may be of any registry, although the allowlist is
  introduced as one of trusted registries (`charts/fixora/values.yaml:112`).
* `OneAtATime` excepts workloads whose ReplicaSet could not be read: these are
  locked under another name, which the code does not notice.
* `ReportsApart` with a database and no faults is about the whole cooldown; with
  faults only about the lock's window.
* `EveryFailureAnswered` allows `MaxFaults` faults; a cluster that fails for ever
  is answered never.
* `NoDuplicatePR` is checked with *one* worker and with rows that are written;
  with two it fails (below), and without a database there is a gap between the
  removal of a fix from the map and its pull request.
* `RevertedOnce` is checked with one monitor and speaks of reverts that are
  recorded: when the update after a created revert is lost, or two monitors
  overlap, the code does open another.
* The limiter counts without a lock. `OverrunBounded` is what holds: each other
  goroutine gets in once more, and none twice; in memory, none at all.
* Deadlock is not checked in `intake`, `proposal` and its three violations, whose
  systems may stop: a replica that has no work and no time left to pass, a
  proposal that has ended. In all others it is: people can always do something,
  and callers can always call again.

**Fairness.** Only what goroutines, timers and the platform do by themselves:

* `Intake`: the worker runs, the informer resyncs and the scans come round (weak
  fairness of `Work`, `enqueuePod`, `scanForAppFailures`, `pullAlert`); a free lease
  is acquired, one that nobody renews lapses, a replica that lost its own exits;
  time passes. Nothing is assumed of the webhook, of the retries of the queue, of
  faults or of the cluster.
* `InvestigationLock`: strong fairness of each caller's steps, because Postgres
  queues those who wait for a row.
* `Remediation`: weak fairness of each actor's steps, of `HandlerReturns`,
  `CleanupExpired` and `Tick`. The monitor repeats a failed query, poll or update
  in every cycle, and a call that is made again and again succeeds at some time:
  strong fairness of `ListRead`, `RevertsRead`, `PollSettles` and `UpdateLands`.
  People owe nothing: nobody has to click, merge or close. A monitor killed over
  and over would never finish, so `outcomes` has no crashes.

## 4. Where the code disagrees with what it says

Six runs expect a violation; each checks one property that a document, comment,
message or test states.

* `concurrent`: the leak scanner locks `namespace/pod` (`controller.go:392`,
  under the comment "Global Investigation Lock check for Leaks") and the worker
  `namespace/workload` (`:837`), so both remediate one workload at once, both
  pass the filter, and two pull requests are opened for one target.
* `expired_blocks`: the clean-up deletes the fix (`history.go:523`) and leaves
  its row `pending_approval`, which blocks the target for ever: "active PR or
  pending approval already exists" (`controller.go:1417`), but neither does.
* `cancelled`: `go s.controller.SubmitPendingFix(r.Context(), ...)`
  (`server.go:242`, `:310`): once the handler has returned, the submission fails
  after the fix was taken. The button should trigger the pull request
  (`docs/deployment.md:138`).
* `own_branch`: the branch is named for the base name of a plan's first file
  (`pr_workflow.go:109`), so of two files with one base name in one repository
  the second is dropped as already seen (`controller.go:1519`); "Each repo/file
  group gets its own branch" (`:1390`).
* `stale_listing`: the AI is shown a file as it was listed (`controller.go:1190`),
  and its answer is compared with the file as it is read again (`:1281`): what was
  pushed in between is undone, and no later check notices, though a changed
  source is to be refused (`:1667`).
* `kustomize_blocked`: every changed file but `values.yaml` is given to
  `kubectl apply --dry-run=client` (`controller.go:1368`), which does not know the
  kind of a `kustomization.yaml`; yet that is the file the AI is told to change
  (`gitops_remediation.go:31`).

## 5. What is proved

From the assumptions in the modules only, for any numbers of replicas, pods,
keys, plans, targets, workers, approvals, monitors and callers, and for any sets
of worlds, answers and faults, these are all invariants and action properties of
the runs that pass:

| Theorem | Statement |
|---|---|
| `IntakeInvariant` | `Spec => []IntakeInv` |
| `OneDiagnosis` | `Spec => []OneAtATime` |
| `ProposalInvariant` | `ProposalSpec => []PInv` |
| `ProposalsContained`, `ProposalsVetted` | `ProposalSpec => []` of `Contained`, `Vetted` |
| `CauseIsKept` | `ProposalSpec => []CauseKept` |
| `ProposalsPlaced` | `ProposalSpec => []KeptByGitOps` |
| `PodImageAlone` | `ProposalSpec => []PodImageOnly` |
| `ResolvedPlaces` | of any `WorldOK` world and any reads that fail, `ResolvePod` lists sources in the order of their ranks; their places are all in `Managed`, or else they are `Noted`, and that only if `Managed` is empty or a read failed; if none failed, the places are exactly `Managed`, or `Noted` if that is empty |
| `Invariance` | `Spec => []IInv` |
| `TypeCorrect`, `RecordsAreSound`, `PullRequestsMandated`, `DoubtOpensNothing`, `SubmittedOnce` | `Spec => []` of `TypeOK`, `RecordsSound`, `Mandated`, `DoubtNeverOpens`, `OneSubmission` |
| `LifecycleMovesForward` | `Spec => LifecycleForward` |
| `RightsUsedOnce` | `Spec => ImplementsMandate`, that is, `Remediation` refines `Mandate` |
| `StaleNeverOpens` | `Spec => StaleApprovalRefused` |
| `RevertsAnswerOnce` | with one monitor, `Spec => RevertedOnce` |
| `NoDuplicates` | with one worker and rows that are written, `Spec => NoDuplicatePR` |
| `LeakInvariant`, `LeaksReportedApart` | `LeakSpec => []LeakInv`, `LeakSpec => []ReportsApart` |
| `LockInvariant`, `GrantsApart` | `Spec => []LockInv`, `Spec => LW!LWSpec` |
| `StoreInvariant`, `HandsOutOnce` | `StoreSpec => []StoreInv`, `StoreSpec => HO!HOSpec` |
| `LimiterInvariant`, `LimiterTypes`, `AllowedBounded` | `LimiterSpec => []` of `LimiterInv`, `LimiterTypeOK`, `OverrunBounded` |

The assumptions (`IntakeAssumption`, `ProposalAssumption`, ...) say that kinds of
actors are disjoint, that a `NoPlan` is no plan, that delays are natural and
below their cap, that there are finitely many goroutines at the limiter, that a
world lists its objects (`WorldOK`) and every document of its files has a kind and
fields (`FilesOK`), that a trusted repository has a name, that the faults are among those of which it is said what a pod
with them looks like, and, the only one with weight, that the context of a
diagnosis ends before the window of its lock: `Limit < Window`.

**Intake.** `OneAtATime` is not inductive: a lock may lapse while its diagnosis
runs, unless it is known to outlast it. `LockOutlasts` says that the lock of a
running diagnosis has at least `left + (Window - Limit)` to go. Every tick takes
one from both, and a diagnosis whose `left` is zero stops the clock; so its key
is locked, nobody else is granted it, and no two replicas hold one key
(`OneHolder`). Two diagnoses of one workload then have different keys, one of
which is not the workload's. The case without a database needs `WorkInScope`:
one replica does all the work, since an exit that clears its locks would
otherwise clear another's.

**Proposal.** `PInv` says of each stage what is known there. The sources still
to be listed are those of the resolver, and what is in `repoMap` is discovered
from trusted repositories only (`DiscoveredTrusted`), so that an admitted change
is one of an allowed file (`GatedSound`), whatever the AI answers; the branch to
which a change is compared may be another source's, but never another
repository's. `Validate` is the only way to the plans, and what it establishes of
each repository's changes (`PlannedVetted`) stays true because `gated` is fixed
from then on and `Propose` only distributes it. `Contained` and `Vetted` are about
the last step. `Vetted` is stated by itself (`ChangeVetted`, `ImageVetted`), not with
the operators of the guardrails; that these imply it is part of the proof.

**The lifecycle.** `RecordsSound` is not inductive: `RecordPR` writes `pr_opened`
because of where the goroutine is, not of what it reads. `IInv` says who owns a
plan and what the owner knows. A plan is first an untouched *draft* of one worker
(`DraftInv`); then the worker that submits it *owns* it (`SoleOwner`,
`WorkerOwnerInv`): its row is still a draft row, it has no pull request before
`create` has run and it has one at `record`; while its fix is `pending` *nobody*
owns it (`PendingInv`), which is why the take is what makes one approval its
owner (`ApproverOwnerInv`); and at last the row belongs to the *monitors*, of
which there may be several with lists of any age. They are harmless to each
other because what they were told stays true (`MonitorInv`): a merged pull
request stays merged, and a row past the merge stays past it. `ModeInv` ties each
mode to the confidence and risk that led to it. `Init` implies `IInv`, each
action preserves each part that it can disturb (one lemma per action), and `IInv`
implies the invariants; the action property follows from `IInv` in the state
before the step.

**Several plans, several steps.** Three arguments stand on `IInv`. A stale pending
fix is *doomed*: it waits for a click, so no worker submits it, and an approver
that takes it has the check of the source still ahead (`Doomed`). The list of a
*single* monitor stays true while it is worked through, because nobody else
writes those rows (`Worklist`); with two monitors it does not. And `DupInv` says
that while a pull request may still be opened for a plan (it is `Live`: it waits
for an approval, has one, or is in the worker's hands), no other plan of the same
target is live or has an open one. A plan becomes live at the second half of the
filter only. The host shows the pull requests that are open; what it cannot show
yet, the first half has found in the rows (`AskingKnown`: whatever waits is a
`pending_approval` row) or is in the worker's own batch, whose targets differ
(`BatchDistinct`). That needs the rows to be written and one worker:
`FilterSeesRivals` carries what the first half found to the second, and a second
worker could admit a rival in between, which the run `concurrent` shows.

**The refinement of `Mandate`.** The lifecycle keeps no variable for the right to
open a pull request; `Right` reads it off the state. It is *held* while a worker
or an approver is at the check of the source, at the limiter or at the call of
the host; it is *asked* for while the fix waits for a click; there is *none* yet
while the plan is not made, not stored or not announced; and else it is *gone*.
`RightInOnePlace` draws from `IInv` that a plan is in one of these places at a
time. Four actions move a right, each that of one plan only: `Announce` asks,
`Take` grants, `SavePlan` waives in auto-fix mode, and the creation uses up what
its submitter held, whether or not the reply is lost. Of every other step the
proof shows that it gives no right (`AskedFrom`, `MayOpenFrom`, `YetToAskFrom`), so
that all it can do is to let rights lapse, as clean-ups, refusals and crashes
do, or to decide an open pull request.

**The leak scan.** A scan has ended before time passes, so the lock it took is
fresh (`LockFresh`), no second one runs beside it (`OneScan`), and after its
report the lock lasts for the first window of the cooldown (`LockCovers`). With a
database and no fault the row is the last report as soon as the scan has
recorded it (`RowTells`).

**The lock.** `LockInv` says that the row outlives every grant
(`granted + offset <= lockedAt`) and that between a caller's check and its commit
nobody else can change it, so that its stamp is a window after the one it
replaces; a caller that found no row commits only if there still is none.

**The store.** A taker that is past its `SELECT` holds the row, the row is there,
and it was handed to nobody.

**The limiter.** It counts without a lock, so what it allowed can exceed what it
counted. `LimiterInv` bounds both together: what was allowed in any hour, with
those who are past their look and have not returned (`Pending`), is at most the
limit and all callers but one (`DBBound`). To be allowed moves one from the second
number to the first. A caller becomes pending only if his count was below the limit,
and the count shows whatever was allowed within the hour, because it is recorded by
then (`AllowedRecorded`) and the cutoff lies an hour back at least (`CutoffPast`):
hence less than the limit was allowed, and at most all callers are pending. In
memory nobody is pending. The sum over an hour is a fold, that is, a recursive
function of sets: that it is what a sum should be is proved by looking at a
smallest set for which it is not (`NumberDef`, `NumberRemove`; `LeastElements`
has the least ones).

**The resolver.** What a loop appends is the concatenation of what its turns
append (`FlattenSeq` of `Optional`s). `Flattened` and `FlattenedAscending` say
which elements that has and when it is in order; the rest follows the resolver
from object to source. What the reads that succeed reach of the cluster (`ArgoReached`,
`KustomizationReached`, `ReleaseReached`) is first found exactly; it is in `Managed`,
and all of it if none failed (`ReachedIsManaged`). A release whose repository cannot be
read is a source without a repository (`Unplaced`), which no trusted one is. That
duplicates are dropped loses no place (`DedupeElements`), nor does the sorting
(`RankedElements`).

**The diagnosis.** `CauseKept` needs to know what a pod showed when it was queued,
although it may show something else when it is diagnosed. `CauseInv` keeps, while
it waits, that the pod looks like the fault it has and that a reason which names a
fault was given for the one it had then (`SeenWell`, `ReasonNamesCause`). Then the looks of
the faults decide: each text is what it quotes with at most the words of the fault
(`Spoken`, `WordsOf`). The words make the right classifier hit; a classifier that is
asked before it could only be hit by a quoted needle, and of these the ones that
would have done it are excluded (`NeedleSets`, `MisleadingSets`, `RightRule`, `FirstHit`).

**Where a change is placed.** `PlaceInv` carries one statement from stage to
stage: sources, discovered files and admitted changes are in a place of the
cluster (`Here`), a new file in its own directory below one. The resolver starts
it (`ResolvedPlaces`; a source without a repository is never trusted), each file is discovered below the place of its source, each
change is for a discovered file or the new one, and the checks only take away.

**What a merge leaves.** `MergeInv` says of each admitted change to a bare Pod's
file that it is what the file was when it was read, but for image and pull policy.
It is earned when the patch is admitted, from the two ways to rewrite an image
(`PodMerged`, `AnswerMerged`); a push in between changes the file that is read and
not what is said of it, as long as it leaves every document its fields (`FilesOK`).

**Model-checked only.** What needs fairness (`EveryFailureAnswered`,
`PRFateRecorded`, `RegressionAnswered`, `EveryCallAnswered`), because the prover
handles neither `ENABLED` nor liveness under fairness.

## 6. Not modelled

* *Texts*: prompts, logs and their compression, correlation reports, evidence
  lists, notifications, the report of ArgoCD. They feed the AI, and an answer of
  the AI is any of a set.
* *Secret scrubbing* (`security/`, and the tokenizer behind
  `PRIVACY_SCRUB_GIT_CONTENT`): regular expressions over text. With that switch
  on, a file comes back with the tokens replaced; the models have it off.
* *HTTP clients* of metrics, AI, FinOps and hosts, with their formats, retries and
  floating-point arithmetic; GitLab and GitHub differ in nothing a property is
  about. The API calls inside one `CreatePullRequest` are one step.
* *Event stream and dependency graph*: a copy of events that only reports read.
* *Overlay regions*: appear in branch names and titles, decide nothing.
* *Configuration parsing and `main`*: the values are constants.

The hazards in `PROJECT.json` that carry a note and no property are those that
no property covers. Further things that were met and lie outside the models: a
nil `*GitHubProvider` inside an interface passes the checks for a missing provider
(`controller/controller.go:1821`); `Get` of the incident store hands out a slice
that `UpdatePatch` writes to (`controller/history.go:374`); `TIMESTAMP` columns
drop the zone of `time.Now()` (`history.go:640`); the performance scan returns at
once where there is a metrics API, since `FallbackProvider` has no bulk queries
(`controller.go:541`, modelled by `promClient`); a snippet
is merged into the first document of a file and the others are not written back
(modelled by `SurgicalUpdate`); branch subjects are truncated and matched by prefix
(`pr_workflow.go:213`); a token inside another token's text is restored in the
order of a map (`security/tokenizer.go:65`).

## 7. Plan

1. *One abstract specification of a row's life*, beside `Mandate`, with the fate of
   its pull request and of its reverts, to be refined by `Remediation`.
2. *Creation at the host*: the branch, the commits and the pull request as
   steps, and what a retry finds of a creation that failed half-way.
3. *The monitor's list*: `ORDER BY updated_at LIMIT 50`. Is every opened pull
   request polled at some time?
4. *The tokenizer*: the round trip of a scrubbed file.
